---- MODULE Spec2Model ----
(***************************************************************************)
(* Hybrid retrieval core of tasks/31_add-hybrid-search-capabilities:       *)
(* BM25 lexical index, vector index, query expansion, result fusion and    *)
(* the HybridSearch orchestrator.                                          *)
(*                                                                         *)
(* Scores are exact rationals <<numerator, denominator>> (denominator > 0).*)
(* A text is the sequence of its raw words; the external tokenizer,        *)
(* lemmatizer, synonym dictionary and embedding model are fixed tables.    *)
(***************************************************************************)
EXTENDS Integers, Sequences, FiniteSets, TLC

VARIABLES
    inst,        \* which HybridSearch instance is observed, and what it has done
    is_indexed,  \* HybridSearch.is_indexed
    bm25,        \* BM25Searcher: the BM25Indexer's fields and bm25_model
    sem,         \* SemanticSearcher: VectorIndex fields and documents
    expander,    \* QueryExpander: enabled, and the EmbeddingExpander's vocabulary
    fusion,      \* ResultFusion fields (rebuilt by update_config)
    config,      \* the configuration file every instance is built from
    disk,        \* what save_index wrote under the path
    saved,       \* history: the engine as it was when it wrote the disk
    added,       \* history: ids handed to BM25Indexer.add_document
    pc,          \* "idle", or "returned" right after a search returned
    last,        \* the last search: its name, its arguments and its outcome
    fin,         \* fusion harness: the result lists handed to fuse
    fout,        \* fusion harness: outcome of the last fuse call
    gen          \* EmbeddingGenerator: cache_enabled and embedding_cache

vars == <<inst, is_indexed, bm25, sem, expander, fusion, config, disk, saved,
          added, pc, last, fin, fout, gen>>

-----------------------------------------------------------------------------
(* Bounds of the model *)

MaxVecs == 2      \* most vectors the vector index is allowed to hold
MaxK == 2         \* largest k passed to a search
MaxLists == 3     \* most result lists handed to fuse
MaxListLen == 2   \* longest result list handed to fuse
MaxSaves == 1     \* most save_index calls in one run
MaxBatch == 3     \* longest batch handed to encode_batch
MaxAdds == 3      \* most add_vectors calls on one vector index
MaxScores == 3    \* longest score list handed to min_max_normalize
MaxWords == 3     \* most words in a text handed to a preprocessor
MaxVocab == 3     \* most terms in an embedding expander's vocabulary

-----------------------------------------------------------------------------
(* Sequences *)

Range(s) == {s[i] : i \in 1..Len(s)}

Take(s, n) == SubSeq(s, 1, IF n < Len(s) THEN n ELSE Len(s))

Reverse(s) == [i \in 1..Len(s) |-> s[Len(s) + 1 - i]]

IsInjective(s) == \A i, j \in 1..Len(s) : s[i] = s[j] => i = j

SeqsUpTo(S, n) == UNION {[1..m -> S] : m \in 0..n}

RECURSIVE SelectIdx(_, _, _)
\* indices i >= from of s, in order, with keep[i]
SelectIdx(keep, n, from) ==
    IF from > n THEN <<>>
    ELSE IF keep[from] THEN <<from>> \o SelectIdx(keep, n, from + 1)
    ELSE SelectIdx(keep, n, from + 1)

-----------------------------------------------------------------------------
(* Rational arithmetic for scores *)

Abs(x) == IF x < 0 THEN -x ELSE x

RECURSIVE Gcd(_, _)
Gcd(a, b) == IF b = 0 THEN a ELSE Gcd(b, a % b)

Rat(n, d) ==
    LET g == Gcd(Abs(n), Abs(d))
        s == IF d < 0 THEN -1 ELSE 1
    IN  <<(s * n) \div g, (s * d) \div g>>

RZero == <<0, 1>>
ROne == <<1, 1>>
RAdd(x, y) == Rat(x[1] * y[2] + y[1] * x[2], x[2] * y[2])
RSub(x, y) == Rat(x[1] * y[2] - y[1] * x[2], x[2] * y[2])
RMul(x, y) == Rat(x[1] * y[1], x[2] * y[2])
RDiv(x, y) == Rat(x[1] * y[2], x[2] * y[1])
RLess(x, y) == x[1] * y[2] < y[1] * x[2]
RLeq(x, y) == x[1] * y[2] <= y[1] * x[2]
REq(x, y) == x[1] * y[2] = y[1] * x[2]

RECURSIVE RSum(_)
RSum(s) == IF s = <<>> THEN RZero ELSE RAdd(Head(s), RSum(Tail(s)))

RECURSIVE RMinOf(_)
RMinOf(s) ==
    IF Len(s) = 1 THEN s[1]
    ELSE LET m == RMinOf(Tail(s)) IN IF RLess(m, s[1]) THEN m ELSE s[1]

RECURSIVE RMaxOf(_)
RMaxOf(s) ==
    IF Len(s) = 1 THEN s[1]
    ELSE LET m == RMaxOf(Tail(s)) IN IF RLess(s[1], m) THEN m ELSE s[1]

-----------------------------------------------------------------------------
(* The documents, texts and external linguistic resources *)

DocIds == {"d1", "d2", "d3"}

\* Document.content, as raw words
Content(id) ==
    CASE id = "d1" -> <<"machine", "learning">>
      [] id = "d2" -> <<"the", "Deep", "learning">>
      [] id = "d3" -> <<"neural", "networks", "2024">>
      [] id = "1" -> <<"machine", "learning", "is", "a", "subset", "of", "AI">>
      [] id = "2" -> <<"deep", "learning", "uses", "neural", "networks">>

\* Document.title, as raw words
Title(id) ==
    CASE id = "d1" -> <<"primer">>
      [] id = "d2" -> <<"Deep", "learning">>
      [] id = "d3" -> <<"networks">>
      [] id = "1" -> <<"basics">>
      [] id = "2" -> <<"advanced">>

\* Document.metadata, as a function from its keys
Metadata(id) ==
    CASE id = "d1" -> [category |-> "tech"]
      [] id = "d2" -> [category |-> "bio"]
      [] id = "d3" -> <<>>
      [] OTHER -> <<>>

QueryTexts == {<<"machine", "learning">>, <<"neural", "network">>, <<>>}

FilterSets == {<<>>, [category |-> "tech"]}

\* str.lower()
Lower(w) ==
    CASE w = "Deep" -> "deep"
      [] w = "Book" -> "book"
      [] w = "AI" -> "ai"
      [] w = "Network" -> "network"
      [] OTHER -> w

\* stopwords.words('english')
EnglishStopWords == {"the", "is", "a", "of"}

\* str.isalpha()
IsAlpha(w) == w # "2024"

\* WordNetLemmatizer.lemmatize
Lemmatize(w) ==
    CASE w = "networks" -> "network"
      [] w = "uses" -> "use"
      [] OTHER -> w

\* wordnet synonyms of a token, in the order list(set(...)) yields them
WordnetSynonyms(w) ==
    CASE w = "machine" -> <<"engine">>
      [] w = "network" -> <<"net", "web">>
      [] w = "bible" -> <<"Book", "word", "scripture", "testament">>
      [] w = "volume" -> <<"book", "tome">>
      [] OTHER -> <<>>

\* SentenceTransformer.encode of one word
WordVec(w) ==
    CASE w = "machine" -> <<2, 0>>
      [] w = "learning" -> <<1, 1>>
      [] w = "deep" -> <<0, 2>>
      [] w = "Deep" -> <<0, 2>>
      [] w = "neural" -> <<0, 1>>
      [] w = "networks" -> <<1, 0>>
      [] w = "network" -> <<1, 0>>
      [] w = "engine" -> <<2, 1>>
      [] w = "net" -> <<1, 0>>
      [] w = "web" -> <<1, 2>>
      [] OTHER -> <<0, 0>>

RECURSIVE Embed(_)
\* SentenceTransformer.encode of a text: a fixed function of the text
Embed(text) ==
    IF text = <<>> THEN <<0, 0>>
    ELSE LET r == Embed(Tail(text))
             v == WordVec(Head(text))
         IN  <<v[1] + r[1], v[2] + r[2]>>

\* squared L2 distance, as faiss.IndexFlatL2 reports it
L2(u, v) == (u[1] - v[1]) * (u[1] - v[1]) + (u[2] - v[2]) * (u[2] - v[2])

-----------------------------------------------------------------------------
(* preprocessing.py *)

min_word_length == 2
max_word_length == 50

\* TextPreprocessor.__init__: stop_words is fixed at construction
stop_words(remove_stopwords) ==
    IF remove_stopwords THEN EnglishStopWords ELSE {}

RECURSIVE FilterTokens(_, _)
\* TextPreprocessor._filter_tokens
FilterTokens(tokens, stops) ==
    IF tokens = <<>> THEN <<>>
    ELSE LET token == Head(tokens)
             rest == FilterTokens(Tail(tokens), stops)
         IN  IF token \in stops THEN rest
             ELSE IF Len(token) < min_word_length
                     \/ Len(token) > max_word_length THEN rest
             ELSE IF ~IsAlpha(token) THEN rest
             ELSE <<Lemmatize(token)>> \o rest

\* TextPreprocessor.preprocess (lowercase and remove_stopwords configured true)
TextPreprocess(text) ==
    IF text = <<>> THEN <<>>
    ELSE FilterTokens([i \in 1..Len(text) |-> Lower(text[i])], stop_words(TRUE))

\* QueryPreprocessor.preprocess: toggles remove_stopwords around the parent
\* call, which filters on the stop_words set built at construction
QueryPreprocess(text) ==
    IF text = <<>> THEN <<>>
    ELSE FilterTokens([i \in 1..Len(text) |-> Lower(text[i])], stop_words(TRUE))

\* TextPreprocessor.__init__: the flag and the stop word set built from it
NewTextPreprocessor(remove_stopwords) ==
    [remove_stopwords |-> remove_stopwords,
     stop_words |-> stop_words(remove_stopwords)]

\* TextPreprocessor.preprocess on a preprocessor object: _filter_tokens
\* reads self.stop_words, never self.remove_stopwords
TextPreprocessRun(p, text) ==
    [tokens |-> IF text = <<>> THEN <<>>
                ELSE FilterTokens([i \in 1..Len(text) |-> Lower(text[i])],
                                  p.stop_words),
     preprocessor |-> p]

\* QueryPreprocessor.preprocess on a preprocessor object: the flag is
\* cleared around the parent call and then restored
QueryPreprocessRun(p, text) ==
    IF text = <<>> THEN [tokens |-> <<>>, preprocessor |-> p]
    ELSE LET original_remove_stopwords == p.remove_stopwords
             run == TextPreprocessRun([p EXCEPT !.remove_stopwords = FALSE], text)
         IN  [tokens |-> run.tokens,
              preprocessor |-> [run.preprocessor EXCEPT
                                   !.remove_stopwords = original_remove_stopwords]]

-----------------------------------------------------------------------------
(* SearchResult and Python's list.sort *)

SearchResult(doc, score, bm25_score, semantic_score) ==
    [doc |-> doc, score |-> score, bm25_score |-> bm25_score,
     semantic_score |-> semantic_score, expansion_score |-> RZero]

\* SearchResult.__lt__: a plain sort() puts the higher score first
SearchResultLt(a, b) == RLess(b.score, a.score)

ScoreKeyLt(a, b) == RLess(a.score, b.score)

\* the comparison a sort uses: the objects' own __lt__, or that of a score key
SortLt(a, b, byKey) == IF byKey THEN ScoreKeyLt(a, b) ELSE SearchResultLt(a, b)

RECURSIVE InsertStable(_, _, _)
\* x goes before the first element it is less than, after its equals
InsertStable(sorted, x, byKey) ==
    IF sorted = <<>> THEN <<x>>
    ELSE IF SortLt(x, Head(sorted), byKey) THEN <<x>> \o sorted
    ELSE <<Head(sorted)>> \o InsertStable(Tail(sorted), x, byKey)

RECURSIVE SortStable(_, _)
\* list.sort(): stable, ascending in the comparison
SortStable(s, byKey) ==
    IF s = <<>> THEN <<>>
    ELSE InsertStable(SortStable(SubSeq(s, 1, Len(s) - 1), byKey), s[Len(s)], byKey)

\* list.sort(reverse=True): descending, equal elements keep their order
SortStableReverse(s, byKey) == Reverse(SortStable(Reverse(s), byKey))

\* results.sort(reverse=True) on SearchResult objects
SortResultsReverse(results) == SortStableReverse(results, FALSE)

\* results.sort(key=lambda x: x.score, reverse=True)
SortByScoreDesc(results) == SortStableReverse(results, TRUE)

-----------------------------------------------------------------------------
(* bm25.py: BM25Indexer *)

\* BM25Indexer.__init__
NewIndexer ==
    [documents |-> {}, tokenized_corpus |-> <<>>, doc_ids |-> <<>>,
     doc_lengths |-> <<>>, avg_doc_length |-> RZero]

RECURSIVE SumLengths(_, _)
SumLengths(doc_lengths, ids) ==
    IF ids = {} THEN 0
    ELSE LET id == CHOOSE x \in ids : TRUE
         IN  doc_lengths[id] + SumLengths(doc_lengths, ids \ {id})

\* BM25Indexer._update_avg_length
UpdateAvgLength(ix) ==
    IF DOMAIN ix.doc_lengths # {}
    THEN [ix EXCEPT !.avg_doc_length =
             Rat(SumLengths(ix.doc_lengths, DOMAIN ix.doc_lengths),
                 Cardinality(DOMAIN ix.doc_lengths))]
    ELSE ix

\* add_document without the "already stored" return
AddDocument_NoCheck(ix, doc) ==
    LET tokens == TextPreprocess(Content(doc))
    IN  UpdateAvgLength(
            [ix EXCEPT !.documents = @ \cup {doc},
                       !.doc_ids = Append(@, doc),
                       !.tokenized_corpus = Append(@, tokens),
                       !.doc_lengths = (doc :> Len(tokens)) @@ @])

\* BM25Indexer.add_document
AddDocument(ix, doc) ==
    IF doc \in ix.documents THEN ix
    ELSE LET tokens == TextPreprocess(Content(doc))
         IN  UpdateAvgLength(
                 [ix EXCEPT !.documents = @ \cup {doc},
                            !.doc_ids = Append(@, doc),
                            !.tokenized_corpus = Append(@, tokens),
                            !.doc_lengths = (doc :> Len(tokens)) @@ @])

RECURSIVE AddDocuments(_, _)
\* BM25Indexer.add_documents
AddDocuments(ix, docs) ==
    IF docs = <<>> THEN ix
    ELSE AddDocuments(AddDocument(ix, Head(docs)), Tail(docs))

\* documents whose content is not a str (Document(id="bad", content=123)):
\* TextPreprocessor.preprocess hands it to re.sub, which raises TypeError
Malformed == {"bad"}

RECURSIVE AddDocumentsRun(_, _)
\* BM25Indexer.add_documents with the exceptions of preprocess: neither it
\* nor add_document has a try, so the loop ends at the first document whose
\* preprocessing raises, the documents before it staying added
AddDocumentsRun(ix, docs) ==
    IF docs = <<>> THEN [kind |-> "ok", indexer |-> ix, error |-> ""]
    ELSE IF Head(docs) \notin ix.documents /\ Head(docs) \in Malformed
         THEN [kind |-> "raise", indexer |-> ix, error |-> "TypeError"]
         ELSE AddDocumentsRun(AddDocument(ix, Head(docs)), Tail(docs))

\* BM25Indexer.document_count
DocumentCount(ix) == Cardinality(ix.documents)

-----------------------------------------------------------------------------
(* bm25.py: the BM25Okapi scorer the searcher builds and queries *)

K1Default == <<3, 2>>
BDefault == <<3, 4>>
EpsilonDefault == <<1, 4>>

NoModel == [built |-> FALSE]

\* BM25Okapi(tokenized_corpus, k1, b, epsilon): built from the corpus as it
\* is at construction
BuildModel(corpus, k1, b, epsilon) ==
    [built |-> TRUE, corpus |-> corpus, k1 |-> k1, b |-> b, epsilon |-> epsilon]

\* 1000 * ln(r[1] / r[2]), rounded
LnMilli(r) ==
    CASE r = <<1, 1>> -> 0
      [] r = <<1, 3>> -> -1099
      [] r = <<1, 5>> -> -1609
      [] r = <<1, 7>> -> -1946
      [] r = <<1, 9>> -> -2197
      [] r = <<1, 11>> -> -2398
      [] r = <<3, 1>> -> 1099
      [] r = <<3, 5>> -> -511
      [] r = <<3, 7>> -> -847
      [] r = <<5, 3>> -> 511
      [] r = <<5, 7>> -> -336
      [] r = <<7, 3>> -> 847
      [] r = <<7, 5>> -> 336
      [] OTHER -> 0

RECURSIVE Count(_, _)
\* occurrences of word w in a token list
Count(tokens, w) ==
    IF tokens = <<>> THEN 0
    ELSE (IF Head(tokens) = w THEN 1 ELSE 0) + Count(Tail(tokens), w)

CorpusWords(corpus) == UNION {Range(corpus[i]) : i \in 1..Len(corpus)}

DocFreq(corpus, w) == Cardinality({i \in 1..Len(corpus) : w \in Range(corpus[i])})

\* ln(N - df + 0.5) - ln(df + 0.5), in thousandths
RawIdfMilli(corpus, w) ==
    LET N == Len(corpus)
        df == DocFreq(corpus, w)
    IN  LnMilli(Rat(2 * N - 2 * df + 1, 2 * df + 1))

RECURSIVE SumIdf(_, _)
SumIdf(corpus, words) ==
    IF words = {} THEN 0
    ELSE LET w == CHOOSE x \in words : TRUE
         IN  RawIdfMilli(corpus, w) + SumIdf(corpus, words \ {w})

\* epsilon * average_idf, in thousandths
EpsMilli(model) ==
    LET words == CorpusWords(model.corpus)
    IN  (model.epsilon[1] * SumIdf(model.corpus, words))
            \div (model.epsilon[2] * Cardinality(words))

\* BM25Okapi.idf: negative idfs are replaced by epsilon * average_idf
IdfMilli(model, w) ==
    IF w \notin CorpusWords(model.corpus) THEN 0
    ELSE LET raw == RawIdfMilli(model.corpus, w)
         IN  IF raw < 0 THEN EpsMilli(model) ELSE raw

RECURSIVE TotalLen(_)
TotalLen(corpus) ==
    IF corpus = <<>> THEN 0 ELSE Len(Head(corpus)) + TotalLen(Tail(corpus))

\* f (k1 + 1) / (f + k1 (1 - b + b |D| / avgdl))
TfPart(model, i, w) ==
    LET f == Rat(Count(model.corpus[i], w), 1)
        avgdl == Rat(TotalLen(model.corpus), Len(model.corpus))
        dl == Rat(Len(model.corpus[i]), 1)
        norm == RAdd(RSub(ROne, model.b), RMul(model.b, RDiv(dl, avgdl)))
    IN  RDiv(RMul(f, RAdd(model.k1, ROne)), RAdd(f, RMul(model.k1, norm)))

TermMilli(model, i, w) ==
    LET t == TfPart(model, i, w)
    IN  (IdfMilli(model, w) * t[1]) \div t[2]

RECURSIVE DocScoreMilli(_, _, _)
DocScoreMilli(model, i, query_tokens) ==
    IF query_tokens = <<>> THEN 0
    ELSE TermMilli(model, i, Head(query_tokens))
             + DocScoreMilli(model, i, Tail(query_tokens))

\* BM25Okapi.get_scores: one score per document of the corpus
GetScores(model, query_tokens) ==
    [i \in 1..Len(model.corpus) |->
        Rat(DocScoreMilli(model, i, query_tokens), 1000)]

-----------------------------------------------------------------------------
(* Query objects and call outcomes *)

\* Query(text, k, min_score, filters): expanded_terms starts empty
Query(text, k, min_score, filters) ==
    [text |-> text, k |-> k, min_score |-> min_score, filters |-> filters,
     expanded_terms |-> <<>>]

Ok(results) == [kind |-> "ok", results |-> results, error |-> ""]
Raise(error) == [kind |-> "raise", results |-> <<>>, error |-> error]

IdsOf(results) == [i \in 1..Len(results) |-> results[i].doc]

-----------------------------------------------------------------------------
(* bm25.py: BM25Searcher *)

\* BM25Searcher.__init__
NewBM25Searcher ==
    [indexer |-> NewIndexer, bm25_model |-> NoModel,
     k1 |-> K1Default, b |-> BDefault, epsilon |-> EpsilonDefault]

\* BM25Searcher.index_documents
BM25IndexDocuments(s, documents) ==
    LET ix == AddDocuments(s.indexer, documents)
    IN  [s EXCEPT !.indexer = ix,
                  !.bm25_model =
                      IF ix.tokenized_corpus # <<>>
                      THEN BuildModel(ix.tokenized_corpus, s.k1, s.b, s.epsilon)
                      ELSE @]

\* BM25Searcher.search
BM25Search(s, query) ==
    IF ~s.bm25_model.built THEN <<>>
    ELSE LET query_tokens == TextPreprocess(query.text)
         IN  IF query_tokens = <<>> THEN <<>>
             ELSE LET scores == GetScores(s.bm25_model, query_tokens)
                      ids == s.indexer.doc_ids
                      n == IF Len(ids) < Len(scores) THEN Len(ids) ELSE Len(scores)
                      keep == [i \in 1..n |->
                                  /\ RLess(query.min_score, scores[i])
                                  /\ ids[i] \in s.indexer.documents]
                      idx == SelectIdx(keep, n, 1)
                      results == [j \in 1..Len(idx) |->
                                     SearchResult(ids[idx[j]], scores[idx[j]],
                                                  scores[idx[j]], RZero)]
                  IN  Take(SortResultsReverse(results), query.k)

\* BM25Searcher.save_index: the pickled index_data
BM25SaveIndex(s) ==
    [documents |-> s.indexer.documents,
     tokenized_corpus |-> s.indexer.tokenized_corpus,
     doc_ids |-> s.indexer.doc_ids,
     doc_lengths |-> s.indexer.doc_lengths,
     avg_doc_length |-> s.indexer.avg_doc_length,
     k1 |-> s.k1, b |-> s.b, epsilon |-> s.epsilon]

\* BM25Searcher.load_index
BM25LoadIndex(s, index_data) ==
    LET ix == [documents |-> index_data.documents,
               tokenized_corpus |-> index_data.tokenized_corpus,
               doc_ids |-> index_data.doc_ids,
               doc_lengths |-> index_data.doc_lengths,
               avg_doc_length |-> index_data.avg_doc_length]
    IN  [indexer |-> ix,
         k1 |-> index_data.k1, b |-> index_data.b, epsilon |-> index_data.epsilon,
         bm25_model |->
             IF ix.tokenized_corpus # <<>>
             THEN BuildModel(ix.tokenized_corpus, index_data.k1, index_data.b,
                             index_data.epsilon)
             ELSE s.bm25_model]

-----------------------------------------------------------------------------
(* semantic.py: EmbeddingGenerator, VectorIndex, SemanticSearcher *)

\* EmbeddingGenerator.__init__: the cache starts empty
NewEmbeddingGenerator(cache_enabled) ==
    [cache_enabled |-> cache_enabled, embedding_cache |-> <<>>]

\* EmbeddingGenerator.encode: the embedding returned, the texts handed to
\* the model and the generator afterwards
EncodeRun(g, text) ==
    IF g.cache_enabled /\ text \in DOMAIN g.embedding_cache
    THEN [embeddings |-> <<g.embedding_cache[text]>>, model_input |-> <<>>,
          generator |-> g]
    ELSE [embeddings |-> <<Embed(text)>>, model_input |-> <<text>>,
          generator |-> IF g.cache_enabled
                        THEN [g EXCEPT !.embedding_cache =
                                 (text :> Embed(text)) @@ @]
                        ELSE g]

\* encode_batch merging the fresh embeddings behind the cached ones, whatever
\* their indices
EncodeBatchRun_Appended(g, texts) ==
    LET hit == [i \in 1..Len(texts) |->
                   g.cache_enabled /\ texts[i] \in DOMAIN g.embedding_cache]
        cached_indices == SelectIdx(hit, Len(texts), 1)
        uncached_indices == SelectIdx([i \in 1..Len(texts) |-> ~hit[i]], Len(texts), 1)
        order == cached_indices \o uncached_indices
    IN  [embeddings |-> [i \in 1..Len(texts) |-> Embed(texts[order[i]])],
         model_input |-> [j \in 1..Len(uncached_indices) |-> texts[uncached_indices[j]]],
         generator |-> IF g.cache_enabled
                       THEN [g EXCEPT !.embedding_cache =
                                [t \in Range(texts) |-> Embed(t)] @@ @]
                       ELSE g]

\* EmbeddingGenerator.encode_batch: the array returned, the texts handed to
\* the model and the generator afterwards
EncodeBatchRun(g, texts) ==
    LET hit == [i \in 1..Len(texts) |->
                   g.cache_enabled /\ texts[i] \in DOMAIN g.embedding_cache]
        uncached_indices == SelectIdx([i \in 1..Len(texts) |-> ~hit[i]], Len(texts), 1)
        uncached_texts == [j \in 1..Len(uncached_indices) |-> texts[uncached_indices[j]]]
        new_embeddings == [j \in 1..Len(uncached_texts) |-> Embed(uncached_texts[j])]
        slot(i) == CHOOSE j \in 1..Len(uncached_indices) : uncached_indices[j] = i
    IN  [embeddings |-> [i \in 1..Len(texts) |->
                            IF hit[i] THEN g.embedding_cache[texts[i]]
                            ELSE new_embeddings[slot(i)]],
         model_input |-> uncached_texts,
         generator |-> IF g.cache_enabled
                       THEN [g EXCEPT !.embedding_cache =
                                [t \in Range(uncached_texts) |-> Embed(t)] @@ @]
                       ELSE g]

\* EmbeddingGenerator.encode_batch: row i is the embedding of texts[i]
EncodeBatch(texts) == [i \in 1..Len(texts) |-> Embed(texts[i])]

\* VectorIndex.__init__ (index_type IndexFlatL2)
NewVectorIndex ==
    [index_type |-> "IndexFlatL2", vectors |-> <<>>, doc_ids |-> <<>>,
     is_trained |-> FALSE]

\* VectorIndex.add_vectors
AddVectors(vi, vectors, doc_ids) ==
    [vi EXCEPT !.is_trained = IF ~@ /\ vi.index_type = "IndexIVFFlat" THEN TRUE ELSE @,
               !.vectors = @ \o vectors,
               !.doc_ids = @ \o doc_ids]

\* add_vectors training the faiss index on every call
AddVectorsOps_TrainAlways(vi, vectors, doc_ids) ==
    (IF vi.index_type = "IndexIVFFlat"
     THEN <<[op |-> "train", vectors |-> vectors, is_trained |-> vi.is_trained]>>
     ELSE <<>>)
        \o <<[op |-> "add", vectors |-> vectors, is_trained |-> TRUE]>>

\* VectorIndex.add_vectors: the calls it makes on the faiss index, in order,
\* each with the value self.is_trained has when it is made
AddVectorsOps(vi, vectors, doc_ids) ==
    (IF ~vi.is_trained /\ vi.index_type = "IndexIVFFlat"
     THEN <<[op |-> "train", vectors |-> vectors, is_trained |-> vi.is_trained]>>
     ELSE <<>>)
        \o <<[op |-> "add", vectors |-> vectors,
              is_trained |-> AddVectors(vi, vectors, doc_ids).is_trained]>>

RECURSIVE Nearest(_, _, _)
\* faiss index.search: the k smallest distances, nearest first; equal
\* distances in insertion order
Nearest(dist, taken, k) ==
    IF k = 0 \/ taken = DOMAIN dist THEN <<>>
    ELSE LET free == DOMAIN dist \ taken
             i == CHOOSE x \in free :
                     \A y \in free : dist[x] < dist[y] \/ (dist[x] = dist[y] /\ x <= y)
         IN  <<i>> \o Nearest(dist, taken \cup {i}, k - 1)

\* VectorIndex.search: the positions of the k nearest vectors
VectorSearch(vi, query_vector, k) ==
    IF Len(vi.doc_ids) = 0 THEN <<>>
    ELSE Nearest([i \in 1..Len(vi.vectors) |-> L2(vi.vectors[i], query_vector)], {}, k)

\* SemanticSearcher.__init__
NewSemanticSearcher == [vector_index |-> NewVectorIndex, documents |-> {}]

\* SemanticSearcher.index_documents
SemanticIndexDocuments(s, documents) ==
    IF documents = <<>> THEN s
    ELSE LET texts == [i \in 1..Len(documents) |-> Content(documents[i])]
             embeddings == EncodeBatch(texts)
         IN  [vector_index |-> AddVectors(s.vector_index, embeddings, documents),
              documents |-> s.documents \cup Range(documents)]

\* SemanticSearcher.search
SemanticSearch(s, query) ==
    LET vi == s.vector_index
    IN  IF Len(vi.doc_ids) = 0 THEN <<>>
        ELSE LET query_embedding == Embed(query.text)
                 k == IF query.k < Len(vi.doc_ids) THEN query.k ELSE Len(vi.doc_ids)
                 indices == VectorSearch(vi, query_embedding, k)
                 sim(j) == Rat(1, 1 + L2(vi.vectors[indices[j]], query_embedding))
                 keep == [j \in 1..Len(indices) |->
                             /\ vi.doc_ids[indices[j]] \in s.documents
                             /\ RLeq(query.min_score, sim(j))]
                 idx == SelectIdx(keep, Len(indices), 1)
                 results == [j \in 1..Len(idx) |->
                                SearchResult(vi.doc_ids[indices[idx[j]]], sim(idx[j]),
                                             RZero, sim(idx[j]))]
             IN  SortResultsReverse(results)

\* SemanticSearcher.save_index: the faiss index, its metadata and the documents
SemanticSaveIndex(s) ==
    [vectors |-> s.vector_index.vectors, doc_ids |-> s.vector_index.doc_ids,
     is_trained |-> s.vector_index.is_trained, documents |-> s.documents]

\* SemanticSearcher.load_index
SemanticLoadIndex(s, data) ==
    [vector_index |-> [s.vector_index EXCEPT !.vectors = data.vectors,
                                             !.doc_ids = data.doc_ids,
                                             !.is_trained = data.is_trained],
     documents |-> data.documents]

-----------------------------------------------------------------------------
(* expansion.py *)

max_synonyms == 3

LowerSet(terms) == {Lower(terms[i]) : i \in 1..Len(terms)}

\* get_synonyms returning every lemma it collected
GetSynonyms_Uncapped(term) == WordnetSynonyms(term)

\* SynonymExpander.get_synonyms
GetSynonyms(term) == Take(WordnetSynonyms(term), max_synonyms)

RECURSIVE AddSynonyms_CaseSensitive(_, _, _)
\* the loop over one token's synonyms comparing the terms as they are spelt
AddSynonyms_CaseSensitive(synonyms, tokens, expanded_terms) ==
    IF synonyms = <<>> THEN expanded_terms
    ELSE IF Head(synonyms) \notin Range(tokens \o expanded_terms)
         THEN LET more == Append(expanded_terms, Head(synonyms))
              IN  IF Len(more) >= max_synonyms * Len(tokens) THEN more
                  ELSE AddSynonyms_CaseSensitive(Tail(synonyms), tokens, more)
         ELSE AddSynonyms_CaseSensitive(Tail(synonyms), tokens, expanded_terms)

RECURSIVE AddSynonyms(_, _, _)
\* SynonymExpander.expand: the loop over one token's synonyms, with its break
AddSynonyms(synonyms, tokens, expanded_terms) ==
    IF synonyms = <<>> THEN expanded_terms
    ELSE IF Lower(Head(synonyms)) \notin LowerSet(tokens \o expanded_terms)
         THEN LET more == Append(expanded_terms, Head(synonyms))
              IN  IF Len(more) >= max_synonyms * Len(tokens) THEN more
                  ELSE AddSynonyms(Tail(synonyms), tokens, more)
         ELSE AddSynonyms(Tail(synonyms), tokens, expanded_terms)

RECURSIVE SynonymTerms(_, _, _)
\* SynonymExpander.expand: the loop over the query's tokens
SynonymTerms(rest, tokens, expanded_terms) ==
    IF rest = <<>> THEN expanded_terms
    ELSE SynonymTerms(Tail(rest), tokens,
                      AddSynonyms(GetSynonyms(Head(rest)), tokens, expanded_terms))

\* SynonymExpander.expand: rewrites the query in place when terms were found
SynonymExpand(query) ==
    LET tokens == QueryPreprocess(query.text)
        expanded_terms == SynonymTerms(tokens, tokens, <<>>)
    IN  IF expanded_terms # <<>>
        THEN [query EXCEPT !.text = query.text \o expanded_terms,
                           !.expanded_terms = expanded_terms]
        ELSE query

OkQuery(query) == [kind |-> "ok", query |-> query, error |-> ""]
RaiseQuery(query, error) == [kind |-> "raise", query |-> query, error |-> error]

\* EmbeddingExpander.__init__
NewEmbeddingExpander == [vocabulary |-> {}, vocab_embeddings |-> FALSE]

\* EmbeddingExpander.set_vocabulary: vocab_embeddings is only replaced for a
\* non-empty vocabulary
SetVocabulary(ex, vocabulary) ==
    [ex EXCEPT !.vocabulary = vocabulary,
               !.vocab_embeddings = IF vocabulary # {} THEN TRUE ELSE @]

\* EmbeddingExpander.expand: past the vocabulary guard it reads
\* self.preprocessor, an attribute EmbeddingExpander.__init__ never sets
EmbeddingExpand(ex, query) ==
    IF ~ex.vocab_embeddings \/ Cardinality(ex.vocabulary) = 0 THEN OkQuery(query)
    ELSE RaiseQuery(query, "AttributeError")

\* 1000 * cosine similarity of a term's embedding with a vocabulary term's
SimMilli(term, vocab_term) ==
    IF vocab_term = term THEN 1000
    ELSE CASE vocab_term = "Network" -> IF term = "network" THEN 996 ELSE 210
           [] vocab_term = "network" -> 205
           [] vocab_term = "networks" -> IF term = "network" THEN 992 ELSE 200
           [] vocab_term = "net" -> IF term = "network" THEN 900 ELSE 100
           [] vocab_term = "web" -> IF term = "network" THEN 800 ELSE 150
           [] vocab_term = "deep" -> 300
           [] OTHER -> 0

RECURSIVE RankBySimilarity(_, _, _)
\* np.argsort(similarities)[::-1]: the vocabulary indices, most similar first
RankBySimilarity(term, vocabulary, idx) ==
    IF idx = {} THEN <<>>
    ELSE LET best == CHOOSE i \in idx :
                         \A j \in idx : SimMilli(term, vocabulary[j])
                                             <= SimMilli(term, vocabulary[i])
         IN  <<best>> \o RankBySimilarity(term, vocabulary, idx \ {best})

\* EmbeddingExpander.get_related_terms with vocab_embeddings set: the
\* top_k + 1 most similar indices are taken first, and the term itself and
\* the near-duplicates are dropped from those
GetRelatedTerms(vocabulary, term, top_k) ==
    LET top_indices == Take(RankBySimilarity(term, vocabulary, 1..Len(vocabulary)),
                            top_k + 1)
        keep == [n \in 1..Len(top_indices) |->
                    /\ Lower(vocabulary[top_indices[n]]) # Lower(term)
                    /\ SimMilli(term, vocabulary[top_indices[n]]) < 990]
        idx == SelectIdx(keep, Len(top_indices), 1)
    IN  Take([n \in 1..Len(idx) |->
                 [term |-> vocabulary[top_indices[idx[n]]],
                  similarity |-> SimMilli(term, vocabulary[top_indices[idx[n]]])]],
             top_k)

RECURSIVE Dedupe(_)
\* list(set(terms)): each distinct term once
Dedupe(terms) ==
    IF terms = <<>> THEN <<>>
    ELSE LET front == Dedupe(SubSeq(terms, 1, Len(terms) - 1))
             x == terms[Len(terms)]
         IN  IF x \in Range(front) THEN front ELSE Append(front, x)

\* QueryExpander.expand without its test of self.enabled
QueryExpand_IgnoreEnabled(ex, query) ==
    LET original_text == query.text
        q1 == SynonymExpand(query)
        r2 == EmbeddingExpand(ex.embedding_expander,
                              [q1 EXCEPT !.text = original_text])
        unique_expanded == Dedupe(q1.expanded_terms \o r2.query.expanded_terms)
    IN  IF r2.kind = "raise" THEN r2
        ELSE IF unique_expanded # <<>>
             THEN OkQuery([r2.query EXCEPT
                              !.text = original_text \o unique_expanded,
                              !.expanded_terms = unique_expanded])
             ELSE OkQuery([r2.query EXCEPT !.text = original_text])

\* QueryExpander.expand handing the query on without resetting its text
ExpanderInputs_NoReset(ex, query) ==
    IF ~ex.enabled THEN <<>> ELSE <<query, SynonymExpand(query)>>

\* QueryExpander.expand: the query as each strategy receives it, in the
\* order of self.expanders; the one object is passed on, its text reset
ExpanderInputs(ex, query) ==
    IF ~ex.enabled THEN <<>>
    ELSE LET original_text == query.text
         IN  <<query, [SynonymExpand(query) EXCEPT !.text = original_text]>>

\* QueryExpander.expand with expansion_sources ['wordnet', 'embedding']
QueryExpand(ex, query) ==
    IF ~ex.enabled THEN OkQuery(query)
    ELSE LET original_text == query.text
             q1 == SynonymExpand(query)
             terms1 == q1.expanded_terms
             r2 == EmbeddingExpand(ex.embedding_expander,
                                   ExpanderInputs(ex, query)[2])
             all_expanded_terms == terms1 \o r2.query.expanded_terms
             unique_expanded == Dedupe(all_expanded_terms)
         IN  IF r2.kind = "raise" THEN r2
             ELSE IF all_expanded_terms # <<>>
                  THEN OkQuery([r2.query EXCEPT
                                   !.text = original_text \o unique_expanded,
                                   !.expanded_terms = unique_expanded])
                  ELSE OkQuery([r2.query EXCEPT !.text = original_text])

\* QueryExpander.__init__
NewQueryExpander(enabled) ==
    [enabled |-> enabled, embedding_expander |-> NewEmbeddingExpander]

\* QueryExpander.set_vocabulary
ExpanderSetVocabulary(ex, vocabulary) ==
    [ex EXCEPT !.embedding_expander = SetVocabulary(@, vocabulary)]

-----------------------------------------------------------------------------
(* fusion.py *)

k_rrf_default == 10

Bm25WeightDefault == <<2, 5>>
SemanticWeightDefault == <<3, 5>>
ExpansionWeightDefault == <<1, 5>>

\* min_max_normalize dividing by the range even when it is empty of spread,
\* a zero range giving 0.0
MinMaxNormalize_ZeroWhenEqual(scores) ==
    IF scores = <<>> THEN <<>>
    ELSE [i \in 1..Len(scores) |->
             IF REq(RMaxOf(scores), RMinOf(scores)) THEN RZero
             ELSE RDiv(RSub(scores[i], RMinOf(scores)),
                       RSub(RMaxOf(scores), RMinOf(scores)))]

\* ScoreNormalizer.min_max_normalize
MinMaxNormalize(scores) ==
    IF scores = <<>> THEN <<>>
    ELSE LET min_score == RMinOf(scores)
             max_score == RMaxOf(scores)
         IN  IF REq(max_score, min_score)
             THEN [i \in 1..Len(scores) |-> ROne]
             ELSE [i \in 1..Len(scores) |->
                      RDiv(RSub(scores[i], min_score), RSub(max_score, min_score))]

\* ResultFusion.__init__: normalize_scores is assigned the configured bool
NewResultFusion(fusion_strategy, normalize_scores, k_rrf) ==
    [fusion_strategy |-> fusion_strategy, normalize_scores |-> normalize_scores,
     bm25_weight |-> Bm25WeightDefault, semantic_weight |-> SemanticWeightDefault,
     expansion_weight |-> ExpansionWeightDefault, k_rrf |-> k_rrf]

\* the body of the method ResultFusion.normalize_scores: it writes the
\* min-max normalised scores into the result objects it was given and
\* returns the same list
NormalizeScoresBody(results) ==
    IF results = <<>> THEN results
    ELSE LET normalized_scores ==
                 MinMaxNormalize([i \in 1..Len(results) |-> results[i].score])
         IN  [i \in 1..Len(results) |->
                 [results[i] EXCEPT !.score = normalized_scores[i]]]

\* fusion.normalize_scores(results) on an instance: the attribute found is
\* the bool __init__ assigned, and calling a bool raises TypeError
CallNormalizeScores(f, results) ==
    IF f.normalize_scores \in BOOLEAN THEN Raise("TypeError")
    ELSE Ok(NormalizeScoresBody(results))

PositionOf(fused, doc) ==
    IF \E i \in 1..Len(fused) : fused[i].doc = doc
    THEN CHOOSE i \in 1..Len(fused) : fused[i].doc = doc
    ELSE 0

RPositive(x) == RLess(RZero, x)

\* _weighted_fusion: one result folded into the fused dict
FoldWeighted(fused, result, weight) ==
    LET p == PositionOf(fused, result.doc)
    IN  IF p = 0
        THEN Append(fused, [result EXCEPT !.score = RMul(result.score, weight)])
        ELSE [fused EXCEPT ![p] =
                 [@ EXCEPT !.score = RAdd(@, RMul(result.score, weight)),
                           !.bm25_score =
                               IF RPositive(result.bm25_score)
                               THEN result.bm25_score ELSE @,
                           !.semantic_score =
                               IF RPositive(result.semantic_score)
                               THEN result.semantic_score ELSE @,
                           !.expansion_score =
                               IF RPositive(result.expansion_score)
                               THEN result.expansion_score ELSE @]]

RECURSIVE FoldList(_, _, _)
FoldList(fused, results, weight) ==
    IF results = <<>> THEN fused
    ELSE FoldList(FoldWeighted(fused, Head(results), weight), Tail(results), weight)

RECURSIVE FoldLists(_, _, _, _)
\* _weighted_fusion: the loop over zip(result_sets, weights); inside it
\* self.normalize_scores is the bool assigned in __init__, which hides the
\* method of that name, so calling it raises TypeError
FoldLists(f, fused, result_sets, weights) ==
    IF result_sets = <<>> \/ weights = <<>> THEN Ok(fused)
    ELSE IF f.normalize_scores THEN Raise("TypeError")
    ELSE FoldLists(f, FoldList(fused, Head(result_sets), Head(weights)),
                   Tail(result_sets), Tail(weights))

\* ResultFusion._weighted_fusion
WeightedFusion(f, result_sets) ==
    LET weights == Take(<<f.bm25_weight, f.semantic_weight, f.expansion_weight>>,
                        Len(result_sets))
        total_weight == RSum(weights)
        normalized == IF RPositive(total_weight)
                      THEN [i \in 1..Len(weights) |-> RDiv(weights[i], total_weight)]
                      ELSE weights
        folded == FoldLists(f, <<>>, result_sets, normalized)
    IN  IF folded.kind = "raise" THEN folded
        ELSE Ok(SortByScoreDesc(folded.results))

RECURSIVE FoldRanks_ZeroBased(_, _, _, _)
\* the rank loop with enumerate starting at 0
FoldRanks_ZeroBased(f, fused, results, rank) ==
    IF rank > Len(results) THEN fused
    ELSE LET doc == results[rank].doc
             rrf_score == Rat(1, f.k_rrf + rank - 1)
             p == PositionOf(fused, doc)
         IN  FoldRanks_ZeroBased(f,
                       IF p = 0
                       THEN Append(fused, SearchResult(doc, rrf_score, RZero, RZero))
                       ELSE [fused EXCEPT ![p].score = RAdd(@, rrf_score)],
                       results, rank + 1)

RECURSIVE FoldRanks_ScoreWeighted(_, _, _, _)
\* the rank loop with the reciprocal rank scaled by the result's own score
FoldRanks_ScoreWeighted(f, fused, results, rank) ==
    IF rank > Len(results) THEN fused
    ELSE LET doc == results[rank].doc
             rrf_score == RMul(results[rank].score, Rat(1, f.k_rrf + rank))
             p == PositionOf(fused, doc)
         IN  FoldRanks_ScoreWeighted(f,
                       IF p = 0
                       THEN Append(fused, SearchResult(doc, rrf_score, RZero, RZero))
                       ELSE [fused EXCEPT ![p].score = RAdd(@, rrf_score)],
                       results, rank + 1)

RECURSIVE FoldRanks(_, _, _, _)
\* _reciprocal_rank_fusion: one list folded into rrf_scores, rank by rank
FoldRanks(f, fused, results, rank) ==
    IF rank > Len(results) THEN fused
    ELSE LET doc == results[rank].doc
             rrf_score == Rat(1, f.k_rrf + rank)
             p == PositionOf(fused, doc)
         IN  FoldRanks(f,
                       IF p = 0
                       THEN Append(fused, SearchResult(doc, rrf_score, RZero, RZero))
                       ELSE [fused EXCEPT ![p].score = RAdd(@, rrf_score)],
                       results, rank + 1)

RECURSIVE FoldRankLists(_, _, _)
FoldRankLists(f, fused, result_sets) ==
    IF result_sets = <<>> THEN fused
    ELSE FoldRankLists(f, FoldRanks(f, fused, Head(result_sets), 1), Tail(result_sets))

\* ResultFusion._reciprocal_rank_fusion
ReciprocalRankFusion(f, result_sets) ==
    SortByScoreDesc(FoldRankLists(f, <<>>, result_sets))

\* ResultFusion.fuse: the callers' lists as the call leaves them. The RRF
\* path only reads them; the weighted path builds new SearchResult objects
\* and adds to those, and with normalize_scores set it raises at the first
\* list, before normalize_scores' body could write to a result
FuseInputsAfter(f, result_sets) ==
    IF Len(result_sets) <= 1 \/ f.fusion_strategy = "rrf" THEN result_sets
    ELSE IF CallNormalizeScores(f, result_sets[1]).kind = "raise" THEN result_sets
    ELSE <<NormalizeScoresBody(result_sets[1])>> \o Tail(result_sets)

\* fuse without the single-list return
Fuse_NoShortcut(f, result_sets) ==
    IF result_sets = <<>> THEN Ok(<<>>)
    ELSE IF f.fusion_strategy = "rrf" THEN Ok(ReciprocalRankFusion(f, result_sets))
    ELSE WeightedFusion(f, result_sets)

\* ResultFusion.fuse
Fuse(f, result_sets) ==
    IF result_sets = <<>> THEN Ok(<<>>)
    ELSE IF Len(result_sets) = 1 THEN Ok(result_sets[1])
    ELSE IF f.fusion_strategy = "weighted" THEN WeightedFusion(f, result_sets)
    ELSE IF f.fusion_strategy = "rrf" THEN Ok(ReciprocalRankFusion(f, result_sets))
    ELSE WeightedFusion(f, result_sets)

-----------------------------------------------------------------------------
(* hybrid.py: HybridSearch *)

\* the instance under observation, as one value
Engine ==
    [is_indexed |-> is_indexed, bm25 |-> bm25, sem |-> sem,
     expander |-> expander, fusion |-> fusion]

\* HybridSearch._build_vocabulary
BuildVocabulary(documents) ==
    UNION {Range(TextPreprocess(Content(documents[i]))) : i \in 1..Len(documents)}

\* HybridSearch._apply_filters: which results it keeps
MatchesFilters(doc, filters) ==
    \A key \in DOMAIN filters :
        /\ key \in DOMAIN Metadata(doc)
        /\ Metadata(doc)[key] = filters[key]

\* _apply_filters keeping every result
ApplyFilters_KeepAll(results, filters) == results

\* HybridSearch._apply_filters
ApplyFilters(results, filters) ==
    LET keep == [i \in 1..Len(results) |-> MatchesFilters(results[i].doc, filters)]
        idx == SelectIdx(keep, Len(results), 1)
    IN  [j \in 1..Len(idx) |-> results[idx[j]]]

\* HybridSearch.search, lines 131-154: the query each retrieval call is
\* given, in call order. query is the object expand returned, its text
\* already rewritten; expanded_query is built from that same text
StageQueries(query, k, min_score, filters) ==
    <<query, query>>
        \o (IF query.expanded_terms # <<>>
            THEN <<Query(query.text, k, min_score, filters)>>
            ELSE <<>>)

\* HybridSearch.search: the three retrieval stages after expansion
ResultSets(e, query, k, min_score, filters) ==
    <<BM25Search(e.bm25, query), SemanticSearch(e.sem, query)>>
        \o (IF query.expanded_terms # <<>>
            THEN <<BM25Search(e.bm25, Query(query.text, k, min_score, filters))>>
            ELSE <<>>)

\* HybridSearch.search, lines 161-170: filter the fused list, cut it to k
FilterAndLimit(fused, k, filters) ==
    IF fused.kind = "raise" THEN fused
    ELSE Ok(Take(IF DOMAIN filters # {}
                 THEN ApplyFilters(fused.results, filters)
                 ELSE fused.results, k))

\* HybridSearch.search, lines 133-170: retrieval, fusion, filter and cut
SearchExpanded(e, expanded, k, min_score, filters) ==
    IF expanded.kind = "raise" THEN Raise(expanded.error)
    ELSE FilterAndLimit(Fuse(e.fusion,
                             ResultSets(e, expanded.query, k, min_score, filters)),
                        k, filters)

\* search without the is_indexed guard
HybridSearchOutcome_NoGuard(e, query_text, k, min_score, filters) ==
    SearchExpanded(e, QueryExpand(e.expander,
                                  Query(query_text, k, min_score, filters)),
                   k, min_score, filters)

\* HybridSearch.search: what the call returns or raises
HybridSearchOutcome(e, query_text, k, min_score, filters) ==
    IF ~e.is_indexed THEN Ok(<<>>)
    ELSE SearchExpanded(e, QueryExpand(e.expander,
                                       Query(query_text, k, min_score, filters)),
                        k, min_score, filters)

\* HybridSearch.search_bm25_only
SearchBM25OnlyOutcome(e, query_text, k, min_score) ==
    Ok(BM25Search(e.bm25, Query(query_text, k, min_score, <<>>)))

\* HybridSearch.search_semantic_only
SearchSemanticOnlyOutcome(e, query_text, k, min_score) ==
    Ok(SemanticSearch(e.sem, Query(query_text, k, min_score, <<>>)))

-----------------------------------------------------------------------------
(* The orchestrator as a state machine *)

\* the calls' arguments
Batches == {<<>>} \cup {<<d>> : d \in DocIds} \cup {<<d, e>> : d, e \in DocIds}

MinScores == {RZero, <<-1, 1>>}

FusionStrategies == {"weighted", "rrf"}

NoCall == [op |-> "none"]
NoDisk == [written |-> FALSE, saves |-> 0]

\* what every specification starts from: one freshly constructed HybridSearch
Fresh ==
    /\ inst = [name |-> "A", phase |-> "new"]
    /\ is_indexed = FALSE
    /\ bm25 = NewBM25Searcher
    /\ sem = NewSemanticSearcher
    /\ disk = NoDisk
    /\ saved = NoDisk
    /\ added = {}
    /\ pc = "idle"
    /\ last = NoCall
    /\ fin = <<>>
    /\ fout = Ok(<<>>)

\* HybridSearch.__init__ on the configuration file
Init ==
    /\ Fresh
    /\ gen = NewEmbeddingGenerator(TRUE)
    /\ config \in [expansion_enabled : BOOLEAN]
    /\ expander = NewQueryExpander(config.expansion_enabled)
    /\ fusion = NewResultFusion("weighted", TRUE, k_rrf_default)

\* a second HybridSearch(), built from the same file; from here on it is the
\* instance that is observed
NewEngine ==
    /\ pc = "idle"
    /\ inst.name = "A"
    /\ inst' = [name |-> "B", phase |-> "new"]
    /\ is_indexed' = FALSE
    /\ bm25' = NewBM25Searcher
    /\ sem' = NewSemanticSearcher
    /\ expander' = NewQueryExpander(config.expansion_enabled)
    /\ fusion' = NewResultFusion("weighted", TRUE, k_rrf_default)
    /\ added' = {}
    /\ UNCHANGED <<config, disk, saved, pc, last, fin, fout, gen>>

\* HybridSearch.index_documents(documents)
IndexDocuments(documents) ==
    /\ pc = "idle"
    /\ Len(sem.vector_index.doc_ids) + Len(documents) <= MaxVecs
    /\ bm25' = BM25IndexDocuments(bm25, documents)
    /\ sem' = SemanticIndexDocuments(sem, documents)
    /\ expander' = ExpanderSetVocabulary(expander, BuildVocabulary(documents))
    /\ is_indexed' = TRUE
    /\ added' = added \cup Range(documents)
    /\ inst' = [inst EXCEPT !.phase = "used"]
    /\ UNCHANGED <<fusion, config, disk, saved, pc, last, fin, fout, gen>>

\* HybridSearch.search(query_text, k, min_score, filters)
Search(query_text, k, min_score, filters) ==
    /\ pc = "idle"
    /\ last' = [op |-> "search", text |-> query_text, k |-> k,
                min_score |-> min_score, filters |-> filters,
                out |-> HybridSearchOutcome(Engine, query_text, k, min_score, filters)]
    /\ pc' = "returned"
    /\ UNCHANGED <<inst, is_indexed, bm25, sem, expander, fusion, config, disk,
                   saved, added, fin, fout, gen>>

\* HybridSearch.search_bm25_only(query_text, k, min_score)
SearchBM25Only(query_text, k, min_score) ==
    /\ pc = "idle"
    /\ last' = [op |-> "search_bm25_only", text |-> query_text, k |-> k,
                min_score |-> min_score, filters |-> <<>>,
                out |-> SearchBM25OnlyOutcome(Engine, query_text, k, min_score)]
    /\ pc' = "returned"
    /\ UNCHANGED <<inst, is_indexed, bm25, sem, expander, fusion, config, disk,
                   saved, added, fin, fout, gen>>

\* HybridSearch.search_semantic_only(query_text, k, min_score)
SearchSemanticOnly(query_text, k, min_score) ==
    /\ pc = "idle"
    /\ last' = [op |-> "search_semantic_only", text |-> query_text, k |-> k,
                min_score |-> min_score, filters |-> <<>>,
                out |-> SearchSemanticOnlyOutcome(Engine, query_text, k, min_score)]
    /\ pc' = "returned"
    /\ UNCHANGED <<inst, is_indexed, bm25, sem, expander, fusion, config, disk,
                   saved, added, fin, fout, gen>>

\* the caller takes the returned list (or the exception) and goes on
Return ==
    /\ pc = "returned"
    /\ pc' = "idle"
    /\ last' = NoCall
    /\ UNCHANGED <<inst, is_indexed, bm25, sem, expander, fusion, config, disk,
                   saved, added, fin, fout, gen>>

\* HybridSearch.save_index(path)
SaveIndex ==
    /\ pc = "idle"
    /\ disk.saves < MaxSaves
    /\ disk' = [written |-> TRUE, saves |-> disk.saves + 1,
                bm25 |-> BM25SaveIndex(bm25), semantic |-> SemanticSaveIndex(sem)]
    /\ saved' = [written |-> TRUE, saves |-> disk.saves + 1,
                 is_indexed |-> is_indexed, bm25 |-> bm25, sem |-> sem,
                 expander |-> expander, added |-> added]
    /\ UNCHANGED <<inst, is_indexed, bm25, sem, expander, fusion, config, added,
                   pc, last, fin, fout, gen>>

\* load_index setting is_indexed only when the loaded index holds documents
LoadIndex_FlagFromFiles ==
    /\ pc = "idle"
    /\ disk.written
    /\ bm25' = BM25LoadIndex(bm25, disk.bm25)
    /\ sem' = SemanticLoadIndex(sem, disk.semantic)
    /\ is_indexed' = (disk.bm25.doc_ids # <<>>)
    /\ added' = saved.added
    /\ inst' = [inst EXCEPT !.phase = IF @ = "new" THEN "loaded" ELSE "used"]
    /\ UNCHANGED <<expander, fusion, config, disk, saved, pc, last, fin, fout, gen>>

\* HybridSearch.load_index(path), the files being there
LoadIndex ==
    /\ pc = "idle"
    /\ disk.written
    /\ bm25' = BM25LoadIndex(bm25, disk.bm25)
    /\ sem' = SemanticLoadIndex(sem, disk.semantic)
    /\ is_indexed' = TRUE
    /\ added' = saved.added
    /\ inst' = [inst EXCEPT !.phase = IF @ = "new" THEN "loaded" ELSE "used"]
    /\ UNCHANGED <<expander, fusion, config, disk, saved, pc, last, fin, fout, gen>>

\* HybridSearch.update_config({'hybrid': {...}}): the fusion is rebuilt
UpdateConfig(fusion_strategy, normalize_scores) ==
    /\ pc = "idle"
    /\ fusion' = NewResultFusion(fusion_strategy, normalize_scores, k_rrf_default)
    /\ UNCHANGED <<inst, is_indexed, bm25, sem, expander, config, disk, saved,
                   added, pc, last, fin, fout, gen>>

Next ==
    \/ NewEngine
    \/ \E documents \in Batches : IndexDocuments(documents)
    \/ \E q \in QueryTexts, k \in 1..MaxK, m \in MinScores, f \in FilterSets :
           Search(q, k, m, f)
    \/ \E q \in QueryTexts, k \in 1..MaxK, m \in MinScores : SearchBM25Only(q, k, m)
    \/ \E q \in QueryTexts, k \in 1..MaxK, m \in MinScores : SearchSemanticOnly(q, k, m)
    \/ Return
    \/ SaveIndex
    \/ LoadIndex
    \/ \E s \in FusionStrategies, n \in BOOLEAN : UpdateConfig(s, n)

Spec == Init /\ [][Next]_vars

-----------------------------------------------------------------------------
(* The lexical index on its own: a BM25Searcher and its BM25Indexer *)

InitBM25 ==
    /\ Fresh
    /\ gen = NewEmbeddingGenerator(TRUE)
    /\ config = [expansion_enabled |-> FALSE]
    /\ expander = NewQueryExpander(FALSE)
    /\ fusion = NewResultFusion("weighted", TRUE, k_rrf_default)

\* BM25Indexer.add_document(document), called on the indexer itself
IndexerAddDocument(doc) ==
    /\ pc = "idle"
    /\ bm25' = [bm25 EXCEPT !.indexer = AddDocument(@, doc)]
    /\ added' = added \cup {doc}
    /\ last' = [op |-> "add", ids |-> <<doc>>, before |-> bm25.indexer]
    /\ UNCHANGED <<inst, is_indexed, sem, expander, fusion, config, disk, saved,
                   pc, fin, fout, gen>>

\* BM25Indexer.add_documents(documents), called on the indexer itself
IndexerAddDocuments(documents) ==
    /\ pc = "idle"
    /\ bm25' = [bm25 EXCEPT !.indexer = AddDocuments(@, documents)]
    /\ added' = added \cup Range(documents)
    /\ last' = [op |-> "add", ids |-> documents, before |-> bm25.indexer]
    /\ UNCHANGED <<inst, is_indexed, sem, expander, fusion, config, disk, saved,
                   pc, fin, fout, gen>>

\* BM25Searcher.index_documents(documents)
SearcherIndexDocuments(documents) ==
    /\ pc = "idle"
    /\ bm25' = BM25IndexDocuments(bm25, documents)
    /\ added' = added \cup Range(documents)
    /\ last' = [op |-> "add", ids |-> documents, before |-> bm25.indexer]
    /\ UNCHANGED <<inst, is_indexed, sem, expander, fusion, config, disk, saved,
                   pc, fin, fout, gen>>

\* BM25Searcher.search(Query(text, k, min_score))
SearcherSearch(query_text, k, min_score) ==
    /\ pc = "idle"
    /\ last' = [op |-> "bm25_search", text |-> query_text, k |-> k,
                min_score |-> min_score, filters |-> <<>>,
                out |-> Ok(BM25Search(bm25, Query(query_text, k, min_score, <<>>)))]
    /\ pc' = "returned"
    /\ UNCHANGED <<inst, is_indexed, bm25, sem, expander, fusion, config, disk,
                   saved, added, fin, fout, gen>>

NextBM25 ==
    \/ \E doc \in DocIds : IndexerAddDocument(doc)
    \/ \E documents \in Batches : IndexerAddDocuments(documents)
    \/ \E documents \in Batches : SearcherIndexDocuments(documents)
    \/ \E q \in QueryTexts, k \in 1..MaxK, m \in MinScores : SearcherSearch(q, k, m)
    \/ Return

SpecBM25 == InitBM25 /\ [][NextBM25]_vars

-----------------------------------------------------------------------------
(* Result fusion on its own: one ResultFusion and the lists handed to fuse *)

\* scores the lists handed to fuse carry
ScoreVals == {<<1, 2>>, <<2, 1>>}

\* one result list: each document at most once, any scores
ResultLists ==
    UNION {{[i \in 1..Len(ids) |-> SearchResult(ids[i], sc[i], sc[i], RZero)] :
               sc \in [1..Len(ids) -> ScoreVals]} :
           ids \in {x \in SeqsUpTo(DocIds, MaxListLen) : IsInjective(x)}}

\* values of the 'k' setting: the default and a small one
RrfKs == {k_rrf_default, 1}

InitFusion ==
    /\ Fresh
    /\ gen = NewEmbeddingGenerator(TRUE)
    /\ config = [expansion_enabled |-> FALSE]
    /\ expander = NewQueryExpander(FALSE)
    /\ fusion \in {NewResultFusion(s, n, k) :
                       s \in FusionStrategies, n \in BOOLEAN, k \in RrfKs}

\* ResultFusion.fuse(result_sets)
FuseCall(result_sets) ==
    /\ pc = "idle"
    /\ fin' = result_sets
    /\ fout' = Fuse(fusion, result_sets)
    /\ pc' = "returned"
    /\ UNCHANGED <<inst, is_indexed, bm25, sem, expander, fusion, config, disk,
                   saved, added, last, gen>>

\* the caller takes the fused list (or the exception) and goes on
FuseReturn ==
    /\ pc = "returned"
    /\ pc' = "idle"
    /\ fin' = <<>>
    /\ fout' = Ok(<<>>)
    /\ UNCHANGED <<inst, is_indexed, bm25, sem, expander, fusion, config, disk,
                   saved, added, last, gen>>

NextFusion ==
    \/ /\ pc = "idle"
       /\ \E result_sets \in SeqsUpTo(ResultLists, MaxLists) : FuseCall(result_sets)
    \/ FuseReturn

SpecFusion == InitFusion /\ [][NextFusion]_vars

-----------------------------------------------------------------------------
(* Properties of the orchestrator, checked under Spec *)

\* C1: is_indexed is one-way. Once HybridSearch.is_indexed is true, no call
\* of index_documents, search, search_bm25_only, search_semantic_only,
\* save_index, load_index or update_config on that same instance makes it
\* false again (only constructing another instance starts Unindexed).
C1_IndexedOneWay ==
    [][(is_indexed /\ inst'.name = inst.name) => is_indexed']_vars

\* an indexed instance that has saved, changed its configuration and searched
C1_Witness ==
    /\ is_indexed
    /\ inst.phase = "used"
    /\ saved.written /\ saved.is_indexed
    /\ fusion.fusion_strategy = "rrf"
    /\ pc = "returned"

\* C2: on an Unindexed HybridSearch each of search, search_bm25_only and
\* search_semantic_only returns the empty list (it does not raise), whatever
\* the query text, k, min_score and filters are, and leaves is_indexed, the
\* BM25 index and the vector index as they were.
C2_UnindexedSearchEmpty ==
    [][(~is_indexed /\ pc = "idle" /\ pc' = "returned")
           => /\ last'.op \in {"search", "search_bm25_only", "search_semantic_only"}
              /\ last'.out = Ok(<<>>)
              /\ is_indexed' = is_indexed
              /\ bm25' = bm25
              /\ sem' = sem]_vars

\* a filtered search with a non-empty text has returned on an Unindexed engine
C2_Witness ==
    /\ ~is_indexed
    /\ pc = "returned"
    /\ last.op = "search"
    /\ last.text # <<>>
    /\ DOMAIN last.filters # {}
    /\ last.min_score = <<-1, 1>>

\* C3: a list returned by HybridSearch.search on an Indexed engine has at
\* most k results, and the metadata of every returned document holds every
\* filter key with the filter's value.
C3_AtMostKAndFiltered ==
    (pc = "returned" /\ last.op = "search" /\ is_indexed /\ last.out.kind = "ok")
        => /\ Len(last.out.results) <= last.k
           /\ \A i \in 1..Len(last.out.results) :
                  \A key \in DOMAIN last.filters :
                      /\ key \in DOMAIN Metadata(last.out.results[i].doc)
                      /\ Metadata(last.out.results[i].doc)[key] = last.filters[key]

\* a filtered search returned results, and fewer than the same search
\* without the filter returns
C3_Witness ==
    /\ pc = "returned" /\ last.op = "search" /\ is_indexed
    /\ last.out.kind = "ok"
    /\ DOMAIN last.filters # {}
    /\ Len(last.out.results) >= 1
    /\ Len(HybridSearchOutcome(Engine, last.text, last.k, last.min_score,
                               <<>>).results) > Len(last.out.results)

\* C4: round trip. When a fresh engine B has loaded what an indexed engine A
\* saved, B is Indexed, and for every query text and k, B.search ends as
\* A.search did on the saved engine under the same fusion settings: the same
\* outcome, with the same document ids in the same order.
C4_RoundTrip ==
    (inst.name = "B" /\ inst.phase = "loaded" /\ saved.written /\ saved.is_indexed
     /\ pc = "idle")
        => /\ is_indexed
           /\ \A q \in QueryTexts, k \in 1..MaxK :
                  LET a == HybridSearchOutcome(
                               [is_indexed |-> saved.is_indexed, bm25 |-> saved.bm25,
                                sem |-> saved.sem, expander |-> saved.expander,
                                fusion |-> fusion], q, k, RZero, <<>>)
                      b == HybridSearchOutcome(Engine, q, k, RZero, <<>>)
                  IN  /\ a.kind = b.kind
                      /\ a.error = b.error
                      /\ IdsOf(a.results) = IdsOf(b.results)

\* C6: whatever index_documents calls were made, every document id occurs at
\* most once in VectorIndex.doc_ids, and the vector index holds as many
\* vectors as distinct ids were indexed.
C6_VectorIdsUnique ==
    /\ IsInjective(sem.vector_index.doc_ids)
    /\ Len(sem.vector_index.vectors) = Cardinality(added)
    /\ Len(sem.vector_index.doc_ids) = Cardinality(added)

-----------------------------------------------------------------------------
(* Properties of the lexical index, checked under SpecBM25 *)

\* C5: idempotent insert. After any add_document / add_documents calls,
\* doc_ids holds each added id exactly once, and doc_ids, tokenized_corpus,
\* doc_lengths and document_count() all count the distinct ids added; a call
\* that adds only ids already stored leaves the indexer as it was.
C5_IdempotentInsert ==
    /\ IsInjective(bm25.indexer.doc_ids)
    /\ Range(bm25.indexer.doc_ids) = added
    /\ Len(bm25.indexer.doc_ids) = Cardinality(added)
    /\ Len(bm25.indexer.tokenized_corpus) = Cardinality(added)
    /\ Cardinality(DOMAIN bm25.indexer.doc_lengths) = Cardinality(added)
    /\ DocumentCount(bm25.indexer) = Cardinality(added)
    /\ (last.op = "add" /\ Range(last.ids) \subseteq last.before.documents)
           => bm25.indexer = last.before

\* the last call added a batch of ids that were all stored already
C5_Witness ==
    /\ last.op = "add"
    /\ Len(last.ids) = 2
    /\ Range(last.ids) \subseteq last.before.documents
    /\ Len(bm25.indexer.doc_ids) = 2

\* C7: BM25Searcher.search returns only documents scoring strictly above
\* query.min_score, in descending order of score, and when more than query.k
\* documents qualify, the query.k highest-scoring ones.
C7_TopKDescending ==
    (pc = "returned" /\ last.op = "bm25_search")
        => LET res == last.out.results
               tokens == TextPreprocess(last.text)
               scored == bm25.bm25_model.built /\ tokens # <<>>
               scores == GetScores(bm25.bm25_model, tokens)
               ids == bm25.indexer.doc_ids
               n == IF Len(ids) < Len(scores) THEN Len(ids) ELSE Len(scores)
               qual == {i \in 1..n : RLess(last.min_score, scores[i])}
           IN  /\ \A j \in 1..Len(res) : RLess(last.min_score, res[j].score)
               /\ \A i, j \in 1..Len(res) :
                      i < j => RLeq(res[j].score, res[i].score)
               /\ ~scored => res = <<>>
               /\ scored =>
                      /\ Len(res) = IF Cardinality(qual) < last.k
                                    THEN Cardinality(qual) ELSE last.k
                      /\ \A i \in qual :
                             ids[i] \notin Range(IdsOf(res))
                                 => \A j \in 1..Len(res) :
                                        RLeq(scores[i], res[j].score)

-----------------------------------------------------------------------------
(* Properties of result fusion, checked under SpecFusion *)

\* C8: fuse with no input list returns the empty list, and with exactly one
\* input list returns that list as it is (same results, order and scores),
\* whatever the fusion strategy and the normalize_scores setting.
C8_ZeroOrOneList ==
    pc = "returned"
        => /\ fin = <<>> => fout = Ok(<<>>)
           /\ Len(fin) = 1 => fout = Ok(fin[1])

\* one two-element list went through an rrf fusion with normalization on
C8_Witness ==
    /\ pc = "returned"
    /\ Len(fin) = 1
    /\ Len(fin[1]) = 2
    /\ fin[1][1].score # fin[1][2].score
    /\ fusion.fusion_strategy = "rrf"
    /\ fusion.normalize_scores

\* C9: weighted fusion of two or three lists with normalize_scores on
\* returns one result per distinct document, sorted by descending fused
\* score; the weights <<bm25, semantic, expansion>> are cut to the number of
\* lists and rescaled to sum to 1, and a document's fused score is the sum,
\* over the lists holding it, of its min-max-normalized score in the list
\* times the list's weight.
C9_WeightedFusion ==
    (pc = "returned" /\ Len(fin) \in 2..3
     /\ fusion.fusion_strategy = "weighted" /\ fusion.normalize_scores)
        => LET raw == Take(<<fusion.bm25_weight, fusion.semantic_weight,
                             fusion.expansion_weight>>, Len(fin))
               weight(i) == RDiv(raw[i], RSum(raw))
               norm(i) == MinMaxNormalize([j \in 1..Len(fin[i]) |-> fin[i][j].score])
               part(i, doc) ==
                   IF \E j \in 1..Len(fin[i]) : fin[i][j].doc = doc
                   THEN RMul(norm(i)[CHOOSE j \in 1..Len(fin[i]) : fin[i][j].doc = doc],
                             weight(i))
                   ELSE RZero
               docs == UNION {Range(IdsOf(fin[i])) : i \in 1..Len(fin)}
               res == fout.results
           IN  /\ fout.kind = "ok"
               /\ IsInjective(IdsOf(res))
               /\ Range(IdsOf(res)) = docs
               /\ \A i, j \in 1..Len(res) : i < j => RLeq(res[j].score, res[i].score)
               /\ \A i \in 1..Len(res) :
                      REq(res[i].score,
                          RSum([l \in 1..Len(fin) |-> part(l, res[i].doc)]))

\* C10: reciprocal rank fusion gives every document the sum, over the input
\* lists holding it, of 1/(k_rrf + r), r its 1-based position in the list,
\* and returns one result per distinct document in descending order of that
\* sum; with k_rrf = 10 a document first in both of two lists gets 2/11.
C10_ReciprocalRank ==
    (pc = "returned" /\ Len(fin) >= 2 /\ fusion.fusion_strategy = "rrf")
        => LET part(i, doc) ==
                   IF \E j \in 1..Len(fin[i]) : fin[i][j].doc = doc
                   THEN Rat(1, fusion.k_rrf
                               + CHOOSE j \in 1..Len(fin[i]) : fin[i][j].doc = doc)
                   ELSE RZero
               docs == UNION {Range(IdsOf(fin[i])) : i \in 1..Len(fin)}
               res == fout.results
           IN  /\ fout.kind = "ok"
               /\ IsInjective(IdsOf(res))
               /\ Range(IdsOf(res)) = docs
               /\ \A i, j \in 1..Len(res) : i < j => RLeq(res[j].score, res[i].score)
               /\ \A i \in 1..Len(res) :
                      REq(res[i].score,
                          RSum([l \in 1..Len(fin) |-> part(l, res[i].doc)]))
               /\ (fusion.k_rrf = 10 /\ Len(fin) = 2
                   /\ fin[1] # <<>> /\ fin[2] # <<>>)
                      => \A i \in 1..Len(res) :
                             (fin[1][1].doc = res[i].doc /\ fin[2][1].doc = res[i].doc)
                                 => res[i].score = <<2, 11>>

\* k_rrf = 10 and one document is first in both of two lists, each of which
\* also ranks another document
C10_Witness ==
    /\ pc = "returned"
    /\ fusion.fusion_strategy = "rrf"
    /\ fusion.k_rrf = 10
    /\ Len(fin) = 2
    /\ Len(fin[1]) = 2 /\ Len(fin[2]) = 2
    /\ fin[1][1].doc = fin[2][1].doc
    /\ fin[1][2].doc # fin[2][2].doc
    /\ Len(fout.results) = 3

\* C11: RRF is invariant to score magnitudes. For any family of input
\* lists, replacing the scores of any of the lists by strictly
\* rank-preserving ones (here x -> 3x + 1) leaves what fuse returns under
\* 'rrf' the same: the same documents, in the same order, with the same
\* fused scores.
C11_RrfScoreInvariant ==
    (pc = "returned" /\ fusion.fusion_strategy = "rrf")
        => \A t \in [1..Len(fin) -> BOOLEAN] :
               LET alt == [i \in 1..Len(fin) |->
                              [j \in 1..Len(fin[i]) |->
                                  [fin[i][j] EXCEPT
                                      !.score = IF t[i]
                                                THEN RAdd(RMul(<<3, 1>>, @), ROne)
                                                ELSE @]]]
                   out == Fuse(fusion, alt)
               IN  /\ out.kind = fout.kind
                   /\ IdsOf(out.results) = IdsOf(fout.results)
                   /\ \A i \in 1..Len(out.results) :
                          REq(out.results[i].score, fout.results[i].score)

\* C11 as it holds: the same, for families of two or more lists; a single
\* list is returned as it is, so it keeps the order but carries the scores
\* it came with.
C11_RrfScoreInvariantTwoPlus ==
    (pc = "returned" /\ fusion.fusion_strategy = "rrf" /\ Len(fin) >= 2)
        => \A t \in [1..Len(fin) -> BOOLEAN] :
               LET alt == [i \in 1..Len(fin) |->
                              [j \in 1..Len(fin[i]) |->
                                  [fin[i][j] EXCEPT
                                      !.score = IF t[i]
                                                THEN RAdd(RMul(<<3, 1>>, @), ROne)
                                                ELSE @]]]
                   out == Fuse(fusion, alt)
               IN  /\ out.kind = fout.kind
                   /\ IdsOf(out.results) = IdsOf(fout.results)
                   /\ \A i \in 1..Len(out.results) :
                          REq(out.results[i].score, fout.results[i].score)

\* an rrf fusion of two lists that share their first document and carry
\* different scores at their two ranks
C11_Witness ==
    /\ pc = "returned"
    /\ fusion.fusion_strategy = "rrf"
    /\ Len(fin) = 2
    /\ Len(fin[1]) = 2 /\ Len(fin[2]) = 2
    /\ fin[1][1].score # fin[1][2].score
    /\ fin[2][1].score # fin[2][2].score
    /\ fin[1][1].doc = fin[2][1].doc
    /\ fout.kind = "ok" /\ Len(fout.results) >= 2

-----------------------------------------------------------------------------
(* The embedding generator on its own *)

\* the texts that get encoded: the documents' contents
Texts == {Content(d) : d \in DocIds}

InitEmbed ==
    /\ Fresh
    /\ gen \in {NewEmbeddingGenerator(c) : c \in BOOLEAN}
    /\ config = [expansion_enabled |-> FALSE]
    /\ expander = NewQueryExpander(FALSE)
    /\ fusion = NewResultFusion("weighted", TRUE, k_rrf_default)

\* EmbeddingGenerator.encode(text)
EncodeCall(text) ==
    /\ pc = "idle"
    /\ last' = [op |-> "encode", texts |-> <<text>>, before |-> gen,
                model_input |-> EncodeRun(gen, text).model_input,
                embeddings |-> EncodeRun(gen, text).embeddings]
    /\ gen' = EncodeRun(gen, text).generator
    /\ pc' = "returned"
    /\ UNCHANGED <<inst, is_indexed, bm25, sem, expander, fusion, config, disk,
                   saved, added, fin, fout>>

\* EmbeddingGenerator.encode_batch(texts)
EncodeBatchCall(texts) ==
    /\ pc = "idle"
    /\ last' = [op |-> "encode_batch", texts |-> texts, before |-> gen,
                model_input |-> EncodeBatchRun(gen, texts).model_input,
                embeddings |-> EncodeBatchRun(gen, texts).embeddings]
    /\ gen' = EncodeBatchRun(gen, texts).generator
    /\ pc' = "returned"
    /\ UNCHANGED <<inst, is_indexed, bm25, sem, expander, fusion, config, disk,
                   saved, added, fin, fout>>

\* the caller takes the embeddings and goes on
EncodeReturn ==
    /\ pc = "returned"
    /\ pc' = "idle"
    /\ last' = NoCall
    /\ UNCHANGED <<inst, is_indexed, bm25, sem, expander, fusion, config, disk,
                   saved, added, fin, fout, gen>>

NextEmbed ==
    \/ \E text \in Texts : EncodeCall(text)
    \/ \E texts \in SeqsUpTo(Texts, MaxBatch) : EncodeBatchCall(texts)
    \/ EncodeReturn

SpecEmbed == InitEmbed /\ [][NextEmbed]_vars

\* C12: encode_batch hands the model exactly the texts of the batch that
\* were not in the cache when it was called, in batch order; row i of what
\* it returns is the embedding of texts[i]; and with caching enabled every
\* text of the batch is in the cache afterwards.
C12_EncodeBatch ==
    (pc = "returned" /\ last.op = "encode_batch")
        => LET miss == {i \in 1..Len(last.texts) :
                           last.texts[i] \notin DOMAIN last.before.embedding_cache}
               nth(j) == CHOOSE i \in miss : Cardinality({m \in miss : m < i}) = j - 1
           IN  /\ Len(last.model_input) = Cardinality(miss)
               /\ \A j \in 1..Len(last.model_input) :
                      last.model_input[j] = last.texts[nth(j)]
               /\ Len(last.embeddings) = Len(last.texts)
               /\ \A i \in 1..Len(last.texts) :
                      last.embeddings[i] = Embed(last.texts[i])
               /\ gen.cache_enabled
                      => Range(last.texts) \subseteq DOMAIN gen.embedding_cache

\* a batch of three with a cached text between two copies of an uncached one
C12_Witness ==
    /\ pc = "returned" /\ last.op = "encode_batch"
    /\ gen.cache_enabled
    /\ Len(last.texts) = 3
    /\ last.texts[1] = last.texts[3]
    /\ last.texts[1] \notin DOMAIN last.before.embedding_cache
    /\ last.texts[2] \in DOMAIN last.before.embedding_cache
    /\ Len(last.model_input) = 2

-----------------------------------------------------------------------------
(* The vector index on its own *)

IndexTypes == {"IndexFlatL2", "IndexIVFFlat"}

\* VectorIndex.__init__ with semantic.index_type from the configuration;
\* last keeps every call made on the faiss index so far
InitVector ==
    /\ inst = [name |-> "A", phase |-> "new"]
    /\ is_indexed = FALSE
    /\ bm25 = NewBM25Searcher
    /\ \E t \in IndexTypes :
           sem = [NewSemanticSearcher EXCEPT !.vector_index.index_type = t]
    /\ disk = NoDisk
    /\ saved = NoDisk
    /\ added = {}
    /\ pc = "idle"
    /\ last = [op |-> "add_vectors", calls |-> 0, ops |-> <<>>]
    /\ fin = <<>>
    /\ fout = Ok(<<>>)
    /\ gen = NewEmbeddingGenerator(TRUE)
    /\ config = [expansion_enabled |-> FALSE]
    /\ expander = NewQueryExpander(FALSE)
    /\ fusion = NewResultFusion("weighted", TRUE, k_rrf_default)

\* VectorIndex.add_vectors(vectors, doc_ids), the vectors being the
\* documents' embeddings
AddVectorsCall(doc_ids) ==
    /\ last.calls < MaxAdds
    /\ Len(sem.vector_index.doc_ids) + Len(doc_ids) <= MaxVecs
    /\ sem' = [sem EXCEPT !.vector_index =
                  AddVectors(@, EncodeBatch([i \in 1..Len(doc_ids) |->
                                                Content(doc_ids[i])]), doc_ids)]
    /\ last' = [last EXCEPT
                   !.calls = @ + 1,
                   !.ops = @ \o AddVectorsOps(
                                    sem.vector_index,
                                    EncodeBatch([i \in 1..Len(doc_ids) |->
                                                    Content(doc_ids[i])]),
                                    doc_ids)]
    /\ UNCHANGED <<inst, is_indexed, bm25, expander, fusion, config, disk, saved,
                   added, pc, fin, fout, gen>>

NextVector == \E doc_ids \in Batches : AddVectorsCall(doc_ids)

SpecVector == InitVector /\ [][NextVector]_vars

\* C13: on a vector index of type IndexIVFFlat, whatever add_vectors calls
\* are made, the faiss index is trained exactly once, on the vectors of the
\* first batch and before anything is inserted; no batch is inserted while
\* is_trained is false, and no later batch trains again.
C13_TrainOnceBeforeInsert ==
    sem.vector_index.index_type = "IndexIVFFlat"
        => LET ops == last.ops
               trains == {i \in 1..Len(ops) : ops[i].op = "train"}
               adds == {i \in 1..Len(ops) : ops[i].op = "add"}
           IN  /\ Cardinality(trains) <= 1
               /\ last.calls >= 1 => trains = {1}
               /\ \A t \in trains :
                      /\ ~ops[t].is_trained
                      /\ t + 1 \in adds
                      /\ ops[t].vectors = ops[t + 1].vectors
               /\ \A a \in adds : ops[a].is_trained /\ \E t \in trains : t < a
               /\ Cardinality(adds) = last.calls
               /\ sem.vector_index.is_trained = (trains # {})
               /\ Len(sem.vector_index.vectors) > 0 => sem.vector_index.is_trained

\* three batches went into an IndexIVFFlat index, the first and a later one
\* holding a vector
C13_Witness ==
    /\ sem.vector_index.index_type = "IndexIVFFlat"
    /\ last.calls = 3
    /\ Len(last.ops) = 4
    /\ last.ops[2].vectors # <<>>
    /\ Len(sem.vector_index.vectors) = 2

-----------------------------------------------------------------------------
(* The query expander on its own *)

ExpandTexts ==
    QueryTexts \cup {<<"bible", "volume">>, <<"bible">>, <<"Deep", "learning">>}

\* Query.expanded_terms as the caller passes it: empty by default, or the
\* terms of an earlier expansion
PriorTerms == {<<>>, <<"exam">>}

Vocabularies == {{}, {"machine", "learning"}}

InitExpand ==
    /\ Fresh
    /\ gen = NewEmbeddingGenerator(TRUE)
    /\ config \in [expansion_enabled : BOOLEAN]
    /\ expander = NewQueryExpander(config.expansion_enabled)
    /\ fusion = NewResultFusion("weighted", TRUE, k_rrf_default)

\* QueryExpander.set_vocabulary(vocabulary)
SetVocabularyCall(vocabulary) ==
    /\ pc = "idle"
    /\ expander' = ExpanderSetVocabulary(expander, vocabulary)
    /\ UNCHANGED <<inst, is_indexed, bm25, sem, fusion, config, disk, saved,
                   added, pc, last, fin, fout, gen>>

\* QueryExpander.expand(query)
ExpandCall(query) ==
    /\ pc = "idle"
    /\ last' = [op |-> "expand", before |-> query,
                inputs |-> ExpanderInputs(expander, query),
                out |-> QueryExpand(expander, query)]
    /\ pc' = "returned"
    /\ UNCHANGED <<inst, is_indexed, bm25, sem, expander, fusion, config, disk,
                   saved, added, fin, fout, gen>>

\* SynonymExpander.expand(query)
SynonymExpandCall(query) ==
    /\ pc = "idle"
    /\ last' = [op |-> "synonym_expand", before |-> query,
                inputs |-> <<query>>, out |-> OkQuery(SynonymExpand(query))]
    /\ pc' = "returned"
    /\ UNCHANGED <<inst, is_indexed, bm25, sem, expander, fusion, config, disk,
                   saved, added, fin, fout, gen>>

ExpandReturn ==
    /\ pc = "returned"
    /\ pc' = "idle"
    /\ last' = NoCall
    /\ UNCHANGED <<inst, is_indexed, bm25, sem, expander, fusion, config, disk,
                   saved, added, fin, fout, gen>>

NextExpand ==
    \/ \E vocabulary \in Vocabularies : SetVocabularyCall(vocabulary)
    \/ \E text \in ExpandTexts, k \in 1..MaxK, terms \in PriorTerms :
           ExpandCall([Query(text, k, RZero, <<>>) EXCEPT !.expanded_terms = terms])
    \/ \E text \in ExpandTexts, k \in 1..MaxK, terms \in PriorTerms :
           SynonymExpandCall([Query(text, k, RZero, <<>>)
                                 EXCEPT !.expanded_terms = terms])
    \/ ExpandReturn

SpecExpand == InitExpand /\ [][NextExpand]_vars

\* the terms the synonym strategy finds for a query text
FoundTerms(text) ==
    SynonymTerms(QueryPreprocess(text), QueryPreprocess(text), <<>>)

\* C14: QueryExpander.expand hands every strategy the query with its text
\* equal to the original text, and when terms were found it returns the
\* query with expanded_terms holding exactly the terms found and text equal
\* to the original text followed by those expanded_terms.
C14_StrategiesSeeOriginal ==
    last.op = "expand"
        => /\ expander.enabled => Len(last.inputs) = 2
           /\ \A i \in 1..Len(last.inputs) :
                  last.inputs[i].text = last.before.text
           /\ (/\ expander.enabled
               /\ last.out.kind = "ok"
               /\ FoundTerms(last.before.text) # <<>>)
                  => /\ Range(last.out.query.expanded_terms)
                            = Range(FoundTerms(last.before.text))
                     /\ last.out.query.text
                            = last.before.text \o last.out.query.expanded_terms

\* an enabled expander returned a query for which synonyms were found
C14_Witness ==
    /\ last.op = "expand"
    /\ expander.enabled
    /\ last.out.kind = "ok"
    /\ Len(FoundTerms(last.before.text)) >= 2
    /\ last.out.query.text # last.before.text

\* no two terms of the list are equal when compared ignoring case
CaseDistinct(terms) ==
    \A i, j \in 1..Len(terms) : Lower(terms[i]) = Lower(terms[j]) => i = j

C16_Unchanged ==
    (/\ last.op = "expand"
     /\ last.out.kind = "ok"
     /\ ~expander.enabled \/ FoundTerms(last.before.text) = <<>>)
        => last.out.query = last.before

\* C16: with expansion disabled, or with no term found by any strategy for a
\* query whose expanded_terms is empty, expand returns the query as it
\* received it.
C16_UnchangedFresh ==
    (/\ last.op = "expand"
     /\ last.out.kind = "ok"
     /\ \/ ~expander.enabled
        \/ /\ FoundTerms(last.before.text) = <<>>
           /\ last.before.expanded_terms = <<>>)
        => last.out.query = last.before

\* an enabled expander found nothing for a query of several words that
\* carried no expanded_terms, and returned
C16_Witness ==
    /\ last.op = "expand"
    /\ expander.enabled
    /\ last.out.kind = "ok"
    /\ Len(last.before.text) >= 2
    /\ FoundTerms(last.before.text) = <<>>
    /\ last.before.expanded_terms = <<>>

\* C17: SynonymExpander.expand adds at most max_synonyms terms for each
\* token of the query, so at most max_synonyms times the number of tokens
\* in all, and no added term equals, ignoring case, a token of the query or
\* a term added before it.
C17_SynonymCap ==
    last.op = "synonym_expand"
        => LET tokens == QueryPreprocess(last.before.text)
               n == Len(tokens)
               upto(i) == SynonymTerms(SubSeq(tokens, 1, i), tokens, <<>>)
           IN  /\ \A i \in 1..n :
                      /\ Len(upto(i)) - Len(upto(i - 1)) <= max_synonyms
                      /\ SubSeq(upto(i), 1, Len(upto(i - 1))) = upto(i - 1)
               /\ Len(upto(n)) <= max_synonyms * n
               /\ LowerSet(upto(n)) \cap LowerSet(tokens) = {}
               /\ CaseDistinct(upto(n))
               /\ upto(n) # <<>>
                      => /\ last.out.query.expanded_terms = upto(n)
                         /\ last.out.query.text = last.before.text \o upto(n)
               /\ upto(n) = <<>> => last.out.query = last.before

\* the synonym strategy ran on a query of two tokens, the first with more
\* than max_synonyms synonyms, the second with one equal, ignoring case, to
\* a term already added
C17_Witness ==
    /\ last.op = "synonym_expand"
    /\ Len(QueryPreprocess(last.before.text)) = 2
    /\ Len(WordnetSynonyms(QueryPreprocess(last.before.text)[1])) > max_synonyms
    /\ "book" \in Range(GetSynonyms(QueryPreprocess(last.before.text)[2]))
    /\ Len(last.out.query.expanded_terms) = max_synonyms + 1

-----------------------------------------------------------------------------
(* The score normalizer on its own *)

\* the floats of a score list: negative, zero, fractional and above one
NormScores == {<<-1, 1>>, RZero, <<1, 2>>, <<2, 1>>, <<5, 1>>}

InitNormalize ==
    /\ Fresh
    /\ gen = NewEmbeddingGenerator(TRUE)
    /\ config = [expansion_enabled |-> FALSE]
    /\ expander = NewQueryExpander(FALSE)
    /\ fusion = NewResultFusion("weighted", TRUE, k_rrf_default)

\* ScoreNormalizer.min_max_normalize(scores), a static method
NormalizeCall(scores) ==
    /\ last' = [op |-> "min_max_normalize", scores |-> scores,
                out |-> MinMaxNormalize(scores)]
    /\ UNCHANGED <<inst, is_indexed, bm25, sem, expander, fusion, config, disk,
                   saved, added, pc, fin, fout, gen>>

NextNormalize == \E scores \in SeqsUpTo(NormScores, MaxScores) : NormalizeCall(scores)

SpecNormalize == InitNormalize /\ [][NextNormalize]_vars

\* C18: min_max_normalize returns a list as long as its input: [] for [],
\* all 1.0 for a list of equal scores, and otherwise each score x mapped to
\* (x - min)/(max - min), so that the least is 0, the greatest is 1 and the
\* order of the scores is kept.
C18_MinMaxNormalize ==
    last.op = "min_max_normalize"
        => LET scores == last.scores
               out == last.out
               I == 1..Len(scores)
           IN  /\ Len(out) = Len(scores)
               /\ scores = <<>> => out = <<>>
               /\ (\A i, j \in I : REq(scores[i], scores[j]))
                      => \A i \in I : out[i] = ROne
               /\ (\E i, j \in I : ~REq(scores[i], scores[j]))
                      => \E lo, hi \in I :
                             /\ \A i \in I : /\ RLeq(scores[lo], scores[i])
                                             /\ RLeq(scores[i], scores[hi])
                             /\ \A i \in I :
                                    REq(RMul(out[i], RSub(scores[hi], scores[lo])),
                                        RSub(scores[i], scores[lo]))
                             /\ REq(out[lo], RZero)
                             /\ REq(out[hi], ROne)
                             /\ \A i \in I : RLeq(RZero, out[i]) /\ RLeq(out[i], ROne)
                             /\ \A i, j \in I :
                                    RLess(scores[i], scores[j]) <=> RLess(out[i], out[j])

\* a list of three different scores, one of them negative, was normalised
C18_Witness ==
    /\ last.op = "min_max_normalize"
    /\ Len(last.scores) = 3
    /\ \A i, j \in 1..3 : i # j => ~REq(last.scores[i], last.scores[j])
    /\ \E i \in 1..3 : RLess(last.scores[i], RZero)
    /\ \E i \in 1..3 : ~REq(last.out[i], RZero) /\ ~REq(last.out[i], ROne)

-----------------------------------------------------------------------------
(* Lexical search through the orchestrator, with the documents' titles *)

\* the two documents of the worked example, in the order they are indexed
ExampleDocs == <<"1", "2">>

LexicalQueries ==
    {Title(d) : d \in DocIds \cup Range(ExampleDocs)} \cup {<<"machine", "learning">>}

InitLexical ==
    /\ Fresh
    /\ gen = NewEmbeddingGenerator(TRUE)
    /\ config = [expansion_enabled |-> FALSE]
    /\ expander = NewQueryExpander(FALSE)
    /\ fusion = NewResultFusion("weighted", TRUE, k_rrf_default)

NextLexical ==
    \/ \E documents \in Batches \cup {ExampleDocs} : IndexDocuments(documents)
    \/ \E query_text \in LexicalQueries, k \in 1..MaxK :
           SearchBM25Only(query_text, k, RZero)
    \/ Return

SpecLexical == InitLexical /\ [][NextLexical]_vars

\* C19 as stated: a search_bm25_only query whose text is the title of an
\* indexed document, no other indexed document having that title, returns
\* that document first.
C19_TitleMatchFirst ==
    \A d \in added :
        (/\ last.op = "search_bm25_only"
         /\ last.text = Title(d)
         /\ \A e \in added : Title(e) = Title(d) => e = d)
            => /\ last.out.kind = "ok"
               /\ last.out.results # <<>>
               /\ last.out.results[1].doc = d

\* C20 as stated: with exactly the documents "1" and "2" indexed,
\* search_bm25_only("machine learning", k=2) with min_score 0 returns
\* document "1" and ranks it above document "2".
C20_ExampleRanking ==
    (/\ bm25.indexer.doc_ids = ExampleDocs
     /\ last.op = "search_bm25_only"
     /\ last.text = <<"machine", "learning">>
     /\ last.k = 2
     /\ last.min_score = RZero)
        => LET ids == IdsOf(last.out.results)
           IN  /\ last.out.kind = "ok"
               /\ \E i \in 1..Len(ids) :
                      /\ ids[i] = "1"
                      /\ \A j \in 1..Len(ids) : ids[j] = "2" => i < j

-----------------------------------------------------------------------------
(* Batches holding a malformed document *)

\* BM25Indexer.add_documents(documents), as HybridSearch.index_documents
\* reaches it through BM25Searcher.index_documents
AddDocumentsCall(documents) ==
    /\ pc = "idle"
    /\ bm25' = [bm25 EXCEPT !.indexer = AddDocumentsRun(@, documents).indexer]
    /\ added' = AddDocumentsRun(bm25.indexer, documents).indexer.documents
    /\ last' = [op |-> "add_documents", ids |-> documents,
                kind |-> AddDocumentsRun(bm25.indexer, documents).kind]
    /\ UNCHANGED <<inst, is_indexed, sem, expander, fusion, config, disk, saved,
                   pc, fin, fout, gen>>

NextBatch ==
    \E documents \in SeqsUpTo(DocIds \cup Malformed, MaxBatch) :
        AddDocumentsCall(documents)

SpecBatch == InitBM25 /\ [][NextBatch]_vars

\* C21 as stated: add_documents on a batch holding a document whose
\* tokenization fails completes, and every other document of the batch is in
\* the index afterwards.
C21_MalformedSkipped ==
    last.op = "add_documents"
        => /\ last.kind = "ok"
           /\ Range(last.ids) \ Malformed \subseteq bm25.indexer.documents

-----------------------------------------------------------------------------
(* The preprocessors on their own *)

Words == {"the", "Deep", "learning", "2024"}

\* TextPreprocessor.preprocess(text), remove_stopwords as configured
TextPreprocessCall(remove_stopwords, text) ==
    /\ last' = [op |-> "preprocess", text |-> text,
                before |-> NewTextPreprocessor(remove_stopwords),
                run |-> TextPreprocessRun(NewTextPreprocessor(remove_stopwords), text)]
    /\ UNCHANGED <<inst, is_indexed, bm25, sem, expander, fusion, config, disk,
                   saved, added, pc, fin, fout, gen>>

\* QueryPreprocessor.preprocess(text), remove_stopwords as configured
QueryPreprocessCall(remove_stopwords, text) ==
    /\ last' = [op |-> "query_preprocess", text |-> text,
                before |-> NewTextPreprocessor(remove_stopwords),
                run |-> QueryPreprocessRun(NewTextPreprocessor(remove_stopwords), text)]
    /\ UNCHANGED <<inst, is_indexed, bm25, sem, expander, fusion, config, disk,
                   saved, added, pc, fin, fout, gen>>

NextPreprocess ==
    \/ \E r \in BOOLEAN, text \in SeqsUpTo(Words, MaxWords) : TextPreprocessCall(r, text)
    \/ \E r \in BOOLEAN, text \in SeqsUpTo(Words, MaxWords) : QueryPreprocessCall(r, text)

SpecPreprocess == InitBM25 /\ [][NextPreprocess]_vars

\* C22 as stated: with remove_stopwords configured true, the query
\* preprocessor keeps every stop word of the text that passes the length and
\* alphabetic filters, the document preprocessor drops it, and the query
\* preprocessor leaves remove_stopwords as it found it.
C22_StopwordsOnlyInDocuments ==
    LET kept(w) == /\ Len(w) >= min_word_length
                   /\ Len(w) <= max_word_length
                   /\ IsAlpha(w)
        stops == {i \in 1..Len(last.text) :
                      Lower(last.text[i]) \in EnglishStopWords /\ kept(Lower(last.text[i]))}
    IN  (last.op \in {"preprocess", "query_preprocess"} /\ last.before.remove_stopwords)
            => /\ last.op = "query_preprocess"
                   => /\ \A i \in stops :
                             Lemmatize(Lower(last.text[i])) \in Range(last.run.tokens)
                      /\ last.run.preprocessor.remove_stopwords
                             = last.before.remove_stopwords
               /\ last.op = "preprocess"
                   => \A i \in stops :
                          Lemmatize(Lower(last.text[i])) \notin Range(last.run.tokens)

-----------------------------------------------------------------------------
(* The lists HybridSearch.search hands to the fusion engine *)

\* the query of the recorded search call, as the expander returned it
ExpandedOfLast ==
    QueryExpand(expander, Query(last.text, last.k, last.min_score, last.filters))

\* of the retrieved lists exactly one holds results, and the call returned
\* that list, filtered and cut to k, with the scores the stage gave
OnlyListReturned(sets, out, k, filters) ==
    Cardinality({i \in 1..Len(sets) : sets[i] # <<>>}) = 1
        => out = FilterAndLimit(
                     Ok(sets[CHOOSE i \in 1..Len(sets) : sets[i] # <<>>]),
                     k, filters)

\* C23 as stated: when exactly one retrieval stage of HybridSearch.search
\* returns results, fuse receives that list alone and the call returns its
\* results with the stage's scores, filtered and cut to k.
C23_SingleListUnchanged ==
    (last.op = "search" /\ is_indexed /\ ExpandedOfLast.kind = "ok")
        => OnlyListReturned(
               ResultSets(Engine, ExpandedOfLast.query, last.k, last.min_score,
                          last.filters),
               last.out, last.k, last.filters)

-----------------------------------------------------------------------------
(* ResultFusion.normalize_scores called on an instance *)

\* fusion.normalize_scores(results)
NormalizeScoresCall(results) ==
    /\ last' = [op |-> "normalize_scores", results |-> results,
                out |-> CallNormalizeScores(fusion, results)]
    /\ UNCHANGED <<inst, is_indexed, bm25, sem, expander, fusion, config, disk,
                   saved, added, pc, fin, fout, gen>>

NextNormalizeScores == \E results \in ResultLists : NormalizeScoresCall(results)

SpecNormalizeScores == InitFusion /\ [][NextNormalizeScores]_vars

\* C24 as stated: on a ResultFusion configured with normalize_scores true,
\* normalize_scores(results) returns [] for [] and, for results with
\* distinct scores, the same results with their scores min-max rescaled, the
\* least being 0 and the greatest 1.
C24_NormalizeScoresOnInstance ==
    (last.op = "normalize_scores" /\ fusion.normalize_scores)
        => /\ last.out.kind = "ok"
           /\ last.results = <<>> => last.out.results = <<>>
           /\ (/\ last.results # <<>>
               /\ \A i, j \in 1..Len(last.results) :
                      REq(last.results[i].score, last.results[j].score) => i = j)
                  => /\ IdsOf(last.out.results) = IdsOf(last.results)
                     /\ \E i \in 1..Len(last.out.results) :
                            REq(last.out.results[i].score, RZero)
                     /\ \A i \in 1..Len(last.out.results) :
                            /\ RLeq(RZero, last.out.results[i].score)
                            /\ RLeq(last.out.results[i].score, ROne)

C25_OriginalThenExpanded ==
    (/\ last.op = "search"
     /\ is_indexed
     /\ ExpandedOfLast.kind = "ok"
     /\ ExpandedOfLast.query.expanded_terms # <<>>)
        => LET queries == StageQueries(ExpandedOfLast.query, last.k,
                                       last.min_score, last.filters)
           IN  /\ Len(queries) = 3
               /\ queries[1].text = last.text
               /\ queries[3].text = last.text \o ExpandedOfLast.query.expanded_terms
               /\ queries[1].text # queries[3].text

\* C28 as stated: on an indexed engine with expansion enabled, once
\* index_documents has set the embedding strategy's vocabulary from a
\* non-empty corpus, every strategy runs to completion and search returns a
\* result list, whatever the query text.
C28_SearchCompletes ==
    (/\ last.op = "search"
     /\ is_indexed
     /\ expander.enabled
     /\ expander.embedding_expander.vocabulary # {})
        => /\ ExpandedOfLast.kind = "ok"
           /\ last.out.kind = "ok"

-----------------------------------------------------------------------------
(* The embedding expander's related terms *)

VocabTerms == {"network", "Network", "networks", "net", "web", "deep"}

\* EmbeddingExpander.get_related_terms(term, top_k) after
\* set_vocabulary(vocabulary)
GetRelatedTermsCall(vocabulary, term, top_k) ==
    /\ pc = "idle"
    /\ last' = [op |-> "get_related_terms", vocabulary |-> vocabulary,
                term |-> term, top_k |-> top_k,
                out |-> GetRelatedTerms(vocabulary, term, top_k)]
    /\ pc' = "returned"
    /\ UNCHANGED <<inst, is_indexed, bm25, sem, expander, fusion, config, disk,
                   saved, added, fin, fout, gen>>

NextRelated ==
    \/ \E vocabulary \in {v \in SeqsUpTo(VocabTerms, MaxVocab) : IsInjective(v)},
          term \in {"network", "deep"}, top_k \in 1..MaxK :
           GetRelatedTermsCall(vocabulary, term, top_k)
    \/ Return

SpecRelated == InitBM25 /\ [][NextRelated]_vars

\* C26 as stated: get_related_terms returns, most similar first, the top_k
\* most similar vocabulary terms among those that differ from the term
\* ignoring case and have similarity below 0.99, and fewer than top_k only
\* when fewer are eligible.
C26_TopKEligible ==
    last.op = "get_related_terms"
        => LET v == last.vocabulary
               sim(i) == SimMilli(last.term, v[i])
               eligible == {i \in 1..Len(v) :
                                Lower(v[i]) # Lower(last.term) /\ sim(i) < 990}
               out == last.out
           IN  /\ Len(out) = IF Cardinality(eligible) < last.top_k
                             THEN Cardinality(eligible) ELSE last.top_k
               /\ \A n \in 1..Len(out) :
                      \E i \in eligible :
                          /\ out[n].term = v[i]
                          /\ out[n].similarity = sim(i)
                          /\ Cardinality({j \in eligible : sim(j) > sim(i)}) = n - 1

-----------------------------------------------------------------------------
(* The semantic stage *)

\* C27 as stated: SemanticSearcher.search on a non-empty index returns at most
\* min(query.k, stored vectors) results, each with score = semantic_score =
\* 1/(1 + d) for its vector's distance d, none below query.min_score, in
\* descending order of similarity; on an empty index it returns the empty list.
C27_SemanticSearchDescending ==
    (pc = "returned" /\ last.op = "search_semantic_only")
        => LET res == last.out.results
               vi == sem.vector_index
               n == Len(vi.doc_ids)
               q == Embed(last.text)
           IN  /\ last.out.kind = "ok"
               /\ n = 0 => res = <<>>
               /\ Len(res) <= (IF last.k < n THEN last.k ELSE n)
               /\ \A j \in 1..Len(res) :
                      /\ res[j].score = res[j].semantic_score
                      /\ \E i \in 1..n :
                             /\ vi.doc_ids[i] = res[j].doc
                             /\ res[j].score = Rat(1, 1 + L2(vi.vectors[i], q))
                      /\ RLeq(last.min_score, res[j].score)
               /\ \A i, j \in 1..Len(res) :
                      i < j => RLeq(res[j].score, res[i].score)

-----------------------------------------------------------------------------
(* Metadata filters and the cut to k *)

\* the indexed documents an engine retrieves for the query when no cut is
\* made: those whose BM25 score or similarity passes query.min_score
Retrievable(e, query_text, min_score, filters) ==
    LET query == Query(query_text, Cardinality(DocIds), min_score, filters)
    IN  Range(IdsOf(BM25Search(e.bm25, query)))
            \cup Range(IdsOf(SemanticSearch(e.sem, query)))

\* C30 as stated: a search that completes filters the whole fused ranking
\* before the cut to k: a retrievable document matching all filters is absent
\* from the result only if k results are returned, and whenever at least k
\* retrievable documents match the filters, k results are returned.
C30_FilterBeforeCut ==
    (pc = "returned" /\ last.op = "search" /\ is_indexed /\ last.out.kind = "ok")
        => LET matching == {d \in Retrievable(Engine, last.text, last.min_score,
                                              last.filters) :
                               MatchesFilters(d, last.filters)}
               res == last.out.results
           IN  /\ Cardinality(matching) >= last.k => Len(res) = last.k
               /\ \A d \in matching :
                      d \notin Range(IdsOf(res)) => Len(res) = last.k

====
